---------------------------- MODULE Spec2Model ----------------------------
(***************************************************************************)
(* A model of the severity aggregation of scripts/common/health_checks.py  *)
(* (SpecHealth), of the guarded remediation executor of                    *)
(* scripts/helpdesk/network_repair.py (Spec, FairSpec; SpecGroup for the   *)
(* sort and the loop of one group method), of the repair loop of           *)
(* scripts/helpdesk/network_toolkit.py (SpecToolkit), of the service       *)
(* checks of run_all_checks (SpecServices), of auto_update.py with the     *)
(* update cycles of scripts/{debian,arch,fedora,macos}/auto_update.py      *)
(* (SpecUpdate), of analyze_bottlenecks of                                 *)
(* scripts/helpdesk/performance_analyzer.py (SpecAnalyzer) and of the      *)
(* MultiStageProgressTracker of utils/progress_tracker.py (SpecTracker).   *)
(*                                                                         *)
(* Python values are modelled as records [kind, val, items]:               *)
(*   a str   is [kind |-> "str",  val |-> s,  items |-> <<>>]              *)
(*   a dict  is [kind |-> "dict", val |-> "", items |-> <<<<k1,v1>>,..>>]  *)
(*           (insertion ordered, as Python dicts are; keys distinct)       *)
(*   a list  is [kind |-> "list", val |-> "", items |-> <<<<"",v1>>,..>>]  *)
(***************************************************************************)
EXTENDS Integers, Sequences, FiniteSets, TLC

VARIABLES
    results,          \* HealthChecker.run_all_checks: the results dict
    overall_status,   \* the value returned by _calculate_overall_status
    hc_pc             \* "input" before the call, "done" after it, "idle"

hvars == <<results, overall_status, hc_pc>>

VARIABLES
    os_type,              \* NetworkRepair.os_info['os_type']
    diagnostic_results,   \* the argument of run_automated_fixes
    dry_run,              \* the argument of run_automated_fixes
    entry,                \* the caller of run_automated_fixes
    requested_auto_approve, \* auto_approve_destructive as the caller was given it
    fix_results,          \* run_automated_fixes: fix_results
    pc,                   \* "start", "attempt", "prompt", "exec", "returned",
                          \* "crashed" (an exception left the pass), "idle"
    group,                \* the group being attempted: 1 DNS, 2 connectivity,
                          \* 3 interface, 4 Windows
    fix_index,            \* the position in the group's fixes_to_try
    fix_result,           \* _attempt_fix: fix_result, of the latest attempt
    cmd_index,            \* _attempt_fix: the position in commands
    all_outputs,          \* _attempt_fix: all_outputs
    run_command_calls,    \* the commands CommandRunner.run_command has run in
                          \* the latest attempt, in order, each with its outcome
    input_calls,          \* the calls of input() in the latest attempt
    executor_invoked,     \* CommandRunner.run_command has run in this pass
    prompt_invoked        \* input() was called in this pass

rvars == <<os_type, diagnostic_results, dry_run, entry, requested_auto_approve,
           fix_results, pc, group, fix_index, fix_result, cmd_index, all_outputs,
           run_command_calls, input_calls, executor_invoked, prompt_invoked>>

VARIABLES
    group_method,     \* the group method that runs (_fix_dns_issues, ...)
    fixes_defined,    \* its list of fixes in the order the method writes it
    fixes_to_try,     \* its local fixes_to_try
    attempted_order,  \* the fixes its loop has handed to _attempt_fix
    group_pc          \* "defined", "loop", "returned", "idle"

gvars == <<group_method, fixes_defined, fixes_to_try, attempted_order, group_pc>>

VARIABLES
    auto_fix,          \* the argument of run_comprehensive_analysis
    max_fix_attempts,  \* the argument of run_comprehensive_analysis
    tk_dry_run,        \* the argument dry_run of run_comprehensive_analysis
    initial_status,    \* results['initial_diagnostics']['overall_status']
    current_status,    \* current_results['overall_status']
    attempt,           \* the loop variable of the repair loop
    fix_attempts,      \* results['fix_attempts']: of each pass its number, the
                       \* status it was given, dry_run and whether its
                       \* fixes_successful is non-empty
    waits,             \* the calls of _wait_with_feedback
    rediagnoses,       \* the calls of run_full_diagnostics in the repair loop
    final_diagnostics, \* results['final_diagnostics'] is set
    tk_pc              \* "diagnosed", "loop", "settle", "rediagnose",
                       \* "phase3", "done", "idle"

tvars == <<auto_fix, max_fix_attempts, tk_dry_run, initial_status, current_status,
           attempt, fix_attempts, waits, rediagnoses, final_diagnostics, tk_pc>>

VARIABLES
    args,             \* the command line of auto_update.py: dry_run, no_reboot,
                      \* force
    updater,          \* the updater class run_updates imports: "debian",
                      \* "arch", "fedora" or "macos"
    updater_self,     \* what the updater's __init__ detects: aur_helper,
                      \* package_manager, homebrew_available
    config,           \* updater.config, the boolean keys run_update_cycle reads
    update_results,   \* run_update_cycle: results
    commands_run,     \* the commands CommandRunner.run_command was given during
                      \* the cycle, in order
    update_pc,        \* the position in the cycle (a step of the updater's
                      \* program), "returned", "exited", "idle"
    exit_code         \* the argument of sys.exit in main; -1 before it

uvars == <<args, updater, updater_self, config, update_results, commands_run, update_pc,
           exit_code>>

VARIABLES
    bottlenecks,      \* PerformanceAnalyzer.analyze_bottlenecks: bottlenecks
    pa_pc             \* "checked" after the four checks, "assessed", "idle"

avars == <<bottlenecks, pa_pc>>

VARIABLES
    stages,                 \* MultiStageProgressTracker.stages: of each stage
                            \* its name and its steps
    current_stage_index,    \* MultiStageProgressTracker.current_stage_index
    current_stage_tracker,  \* the ProgressTracker of the stage started last;
                            \* [stage |-> -1] for None
    finishes,               \* the calls of ProgressTracker.finish so far: of
                            \* each the stage its tracker was created for and
                            \* the stage name of its message
    ms_calls,               \* the calls made on the tracker so far, in order
    ms_pc                   \* "running", "finished" after finish_all,
                            \* "IndexError" when a call raised it, "idle"

mvars == <<stages, current_stage_index, current_stage_tracker, finishes, ms_calls, ms_pc>>

vars == <<hvars, rvars, gvars, tvars, uvars, avars, mvars>>

-----------------------------------------------------------------------------
(* Python values *)

Str(s) == [kind |-> "str", val |-> s, items |-> <<>>]
Dict(kvs) == [kind |-> "dict", val |-> "", items |-> kvs]
List(kvs) == [kind |-> "list", val |-> "", items |-> kvs]

IsContainer(v) == v.kind \in {"dict", "list"}

\* key in item        (item a dict)
HasKey(item, key) == \E i \in 1..Len(item.items) : item.items[i][1] = key

\* item[key]          (item a dict that has the key)
GetItem(item, key) ==
    item.items[CHOOSE i \in 1..Len(item.items) : item.items[i][1] = key][2]

\* item[key] = value  (an existing key keeps its place, a new one is appended)
SetItem(item, key, value) ==
    IF HasKey(item, key)
    THEN [item EXCEPT !.items =
            [i \in 1..Len(item.items) |->
                IF item.items[i][1] = key THEN <<key, value>> ELSE item.items[i]]]
    ELSE [item EXCEPT !.items = Append(item.items, <<key, value>>)]

Max2(a, b) == IF a >= b THEN a ELSE b

-----------------------------------------------------------------------------
(* HealthChecker._calculate_overall_status *)

\* status_priorities = {'critical': 3, 'error': 2, 'warning': 1, 'ok': 0},
\* in the dict's insertion order
status_priorities == << <<"critical", 3>>, <<"error", 2>>, <<"warning", 1>>, <<"ok", 0>> >>

\* a faulty variant, for comparison: a label that is no key of status_priorities counts as a warning
status_priorities_get_default1(status) ==
    IF status.kind = "str"
          /\ \E i \in 1..Len(status_priorities) : status_priorities[i][1] = status.val
    THEN status_priorities[CHOOSE i \in 1..Len(status_priorities) :
                               status_priorities[i][1] = status.val][2]
    ELSE 1

\* status_priorities.get(status, 0); status is a Python value, only a str
\* can be one of the keys
status_priorities_get(status) ==
    IF status.kind = "str"
          /\ \E i \in 1..Len(status_priorities) : status_priorities[i][1] = status.val
    THEN status_priorities[CHOOSE i \in 1..Len(status_priorities) :
                               status_priorities[i][1] = status.val][2]
    ELSE 0

\* a faulty variant, for comparison: system_info is not left out
ignored_root_keys_short == {"timestamp", "overall_status"}

\* the root keys the final loop leaves out
ignored_root_keys == {"timestamp", "system_info", "overall_status"}

RECURSIVE check_status(_, _)
RECURSIVE check_values(_, _, _)
RECURSIVE check_elements(_, _, _)

\* a faulty variant, for comparison: the loop over the values ends after the first dict or list
check_values_first(items, i, max_priority) ==
    IF i > Len(items) THEN max_priority
    ELSE IF IsContainer(items[i][2])
         THEN check_status(items[i][2], max_priority)
         ELSE check_values(items, i + 1, max_priority)

\* for value in item.values(): if isinstance(value, (dict, list)): check_status(value)
check_values(items, i, max_priority) ==
    IF i > Len(items) THEN max_priority
    ELSE check_values(items, i + 1,
            IF IsContainer(items[i][2])
            THEN check_status(items[i][2], max_priority)
            ELSE max_priority)

\* for element in item: check_status(element)
check_elements(items, i, max_priority) ==
    IF i > Len(items) THEN max_priority
    ELSE check_elements(items, i + 1, check_status(items[i][2], max_priority))

\* a faulty variant, for comparison: a dict with a 'status' field is traversed as well
check_status_deep(item, max_priority) ==
    IF item.kind = "dict"
    THEN check_values(item.items, 1,
            IF HasKey(item, "status")
            THEN Max2(max_priority, status_priorities_get(GetItem(item, "status")))
            ELSE max_priority)
    ELSE IF item.kind = "list"
         THEN check_elements(item.items, 1, max_priority)
         ELSE max_priority

\* the inner function check_status; the nonlocal max_priority is threaded
\* through: the operator returns its value after the call
check_status(item, max_priority) ==
    IF item.kind = "dict"
    THEN IF HasKey(item, "status")
         THEN Max2(max_priority, status_priorities_get(GetItem(item, "status")))
         ELSE check_values(item.items, 1, max_priority)
    ELSE IF item.kind = "list"
         THEN check_elements(item.items, 1, max_priority)
         ELSE max_priority

\* for key, value in results.items(): if key not in [...]: check_status(value)
RECURSIVE check_results(_, _, _)
check_results(items, i, max_priority) ==
    IF i > Len(items) THEN max_priority
    ELSE check_results(items, i + 1,
            IF items[i][1] \notin ignored_root_keys
            THEN check_status(items[i][2], max_priority)
            ELSE max_priority)

\* for status, priority in status_priorities.items(): if priority == max_priority:
\*     return status
\* return 'ok'
status_of_priority(max_priority) ==
    IF \E i \in 1..Len(status_priorities) : status_priorities[i][2] = max_priority
    THEN LET first == CHOOSE i \in 1..Len(status_priorities) :
                 /\ status_priorities[i][2] = max_priority
                 /\ \A j \in 1..(i - 1) : status_priorities[j][2] # max_priority
         IN status_priorities[first][1]
    ELSE "ok"

_calculate_overall_status(res) ==
    status_of_priority(check_results(res.items, 1, 0))

-----------------------------------------------------------------------------
(* The bounded set of results trees the aggregation is applied to: the     *)
(* trees built from at most MaxLeaves check results, each placed at one of *)
(* CheckPaths with one of Labels                                           *)

MaxLeaves == 2

\* ok, warning, error, critical, and 'running', the status an entry of
\* check_services carries (not a key of status_priorities)
Labels == {"ok", "warning", "error", "critical", "running"}

\* A path is a root key followed by steps: a key of a nested dict, "[]" (a
\* new element of a list) or, last, "=" (the label is stored as a plain str,
\* not as the 'status' field of a dict).
CheckPaths ==
    { <<"disk_space">>,
      <<"services">>,
      <<"services", "nginx">>,
      <<"services", "system_info">>,
      <<"services", "nginx", "=">>,
      <<"network", "[]">>,
      <<"network", "[]", "nginx">>,
      <<"timestamp">>,
      <<"system_info">>,
      <<"overall_status", "nginx">> }

\* {'status': label}
Leaf(label) == Dict(<< <<"status", Str(label)>> >>)

RECURSIVE Place(_, _, _)
\* the container node with a check result of the given label placed at path
Place(node, path, label) ==
    LET step == Head(path)
        rest == Tail(path)
        old  == IF step # "[]" /\ HasKey(node, step) THEN GetItem(node, step) ELSE Str("")
        kind == IF rest # <<>> /\ Head(rest) = "[]" THEN "list" ELSE "dict"
        new  == IF rest = <<>>
                THEN (IF old.kind = "dict" THEN SetItem(old, "status", Str(label))
                                           ELSE Leaf(label))
                ELSE IF rest = <<"=">>
                THEN Str(label)
                ELSE Place(IF old.kind = kind THEN old
                           ELSE [kind |-> kind, val |-> "", items |-> <<>>],
                           rest, label)
    IN IF step = "[]"
       THEN [node EXCEPT !.items = Append(node.items, <<"", new>>)]
       ELSE SetItem(node, step, new)

RECURSIVE BuildResults(_, _, _)
\* the results dict with the check results 1..n placed in turn
BuildResults(n, paths, labels) ==
    IF n = 0 THEN Dict(<<>>)
    ELSE Place(BuildResults(n - 1, paths, labels), paths[n], labels[n])

-----------------------------------------------------------------------------
(* Strings the executor inspects, as sequences of characters *)

WhitespaceChars == {" ", "\t"}

\* str.lower(), character by character
LowerChar(c) ==
    CASE c = "Y" -> "y" [] c = "E" -> "e" [] c = "S" -> "s" [] c = "N" -> "n"
      [] c = "O" -> "o" [] c = "K" -> "k" [] c = "I" -> "i" [] c = "P" -> "p"
      [] c = "T" -> "t" [] c = "M" -> "m" [] c = "U" -> "u"
      [] OTHER -> c

Lower(str) == [i \in 1..Len(str) |-> LowerChar(str[i])]

RECURSIVE LStrip(_)
LStrip(str) ==
    IF str # <<>> /\ Head(str) \in WhitespaceChars THEN LStrip(Tail(str)) ELSE str

RECURSIVE RStrip(_)
RStrip(str) ==
    IF str # <<>> /\ str[Len(str)] \in WhitespaceChars
    THEN RStrip(SubSeq(str, 1, Len(str) - 1)) ELSE str

\* str.strip()
Strip(str) == RStrip(LStrip(str))

\* sub in str
Contains(str, sub) ==
    \E i \in 0..(Len(str) - Len(sub)) : SubSeq(str, i + 1, i + Len(sub)) = sub

-----------------------------------------------------------------------------
(* The action tables of NetworkRepair *)

\* The first token of each command given as a list
P_powershell   == <<"p","o","w","e","r","s","h","e","l","l">>
P_net          == <<"n","e","t">>
P_timeout      == <<"t","i","m","e","o","u","t">>
P_ipconfig     == <<"i","p","c","o","n","f","i","g">>
P_sudo         == <<"s","u","d","o">>
P_sleep        == <<"s","l","e","e","p">>
P_networksetup == <<"n","e","t","w","o","r","k","s","e","t","u","p">>
P_netsh        == <<"n","e","t","s","h">>

\* An element of a platform's command list: a list of tokens (prog is its
\* first token), or a single string
ListCmd(prog, text) == [shape |-> "list", prog |-> prog, text |-> text]
StrCmd(text) == [shape |-> "str", prog |-> <<>>, text |-> text]

flush_dns_cache ==
    [name |-> "flush_dns_cache", priority |-> 1, requires_admin |-> TRUE,
     commands |-> [
        windows |-> <<StrCmd("ipconfig"), StrCmd("/flushdns")>>,
        linux   |-> <<StrCmd("sudo"), StrCmd("systemctl"), StrCmd("restart"),
                      StrCmd("systemd-resolved")>>,
        macos   |-> <<StrCmd("sudo"), StrCmd("dscacheutil"), StrCmd("-flushcache")>>]]

reset_dns_servers ==
    [name |-> "reset_dns_servers", priority |-> 2, requires_admin |-> TRUE,
     commands |-> [
        windows |-> <<ListCmd(P_powershell, "powershell Set-DnsClientServerAddress")>>,
        linux   |-> <<ListCmd(P_sudo, "sudo sh -c echo nameserver 8.8.8.8 > /etc/resolv.conf"),
                      ListCmd(P_sudo, "sudo sh -c echo nameserver 8.8.4.4 >> /etc/resolv.conf")>>,
        macos   |-> <<StrCmd("networksetup"), StrCmd("-setdnsservers"), StrCmd("Wi-Fi"),
                      StrCmd("8.8.8.8"), StrCmd("8.8.4.4")>>]]

restart_dns_service ==
    [name |-> "restart_dns_service", priority |-> 3, requires_admin |-> TRUE,
     commands |-> [
        windows |-> <<ListCmd(P_net, "net stop dnscache"),
                      ListCmd(P_timeout, "timeout 2"),
                      ListCmd(P_net, "net start dnscache")>>,
        linux   |-> <<StrCmd("sudo"), StrCmd("systemctl"), StrCmd("restart"),
                      StrCmd("systemd-resolved")>>,
        macos   |-> <<StrCmd("sudo"), StrCmd("killall"), StrCmd("-HUP"),
                      StrCmd("mDNSResponder")>>]]

release_renew_ip ==
    [name |-> "release_renew_ip", priority |-> 1, requires_admin |-> TRUE,
     commands |-> [
        windows |-> <<ListCmd(P_ipconfig, "ipconfig /release"),
                      ListCmd(P_timeout, "timeout 3"),
                      ListCmd(P_ipconfig, "ipconfig /renew")>>,
        linux   |-> <<ListCmd(P_sudo, "sudo dhclient -r"),
                      ListCmd(P_sudo, "sudo dhclient")>>,
        macos   |-> <<ListCmd(P_sudo, "sudo ipconfig set en0 BOOTP"),
                      ListCmd(P_sudo, "sudo ipconfig set en0 DHCP")>>]]

reset_network_adapter ==
    [name |-> "reset_network_adapter", priority |-> 2, requires_admin |-> TRUE,
     commands |-> [
        windows |-> <<StrCmd("netsh"), StrCmd("winsock"), StrCmd("reset")>>,
        linux   |-> <<StrCmd("sudo"), StrCmd("systemctl"), StrCmd("restart"),
                      StrCmd("NetworkManager")>>,
        macos   |-> <<ListCmd(P_networksetup, "networksetup -setairportpower en0 off"),
                      ListCmd(P_sleep, "sleep 5"),
                      ListCmd(P_networksetup, "networksetup -setairportpower en0 on")>>]]

reset_tcp_ip_stack ==
    [name |-> "reset_tcp_ip_stack", priority |-> 3, requires_admin |-> TRUE,
     commands |-> [
        windows |-> <<ListCmd(P_netsh, "netsh int ip reset"),
                      ListCmd(P_netsh, "netsh int tcp reset")>>,
        linux   |-> <<StrCmd("sudo"), StrCmd("systemctl"), StrCmd("restart"),
                      StrCmd("networking")>>,
        macos   |-> <<ListCmd(P_sudo, "sudo ifconfig en0 down"),
                      ListCmd(P_sleep, "sleep 3"),
                      ListCmd(P_sudo, "sudo ifconfig en0 up")>>]]

disable_enable_adapter ==
    [name |-> "disable_enable_adapter", priority |-> 1, requires_admin |-> TRUE,
     commands |-> [
        windows |-> <<ListCmd(P_powershell, "powershell Disable-NetAdapter"),
                      ListCmd(P_timeout, "timeout 5"),
                      ListCmd(P_powershell, "powershell Enable-NetAdapter")>>,
        linux   |-> <<ListCmd(P_sudo, "sudo ip link set dev eth0 down"),
                      ListCmd(P_sleep, "sleep 5"),
                      ListCmd(P_sudo, "sudo ip link set dev eth0 up")>>,
        macos   |-> <<ListCmd(P_sudo, "sudo ifconfig en0 down"),
                      ListCmd(P_sleep, "sleep 5"),
                      ListCmd(P_sudo, "sudo ifconfig en0 up")>>]]

reset_winsock ==
    [name |-> "reset_winsock", priority |-> 1, requires_admin |-> TRUE,
     commands |-> [
        windows |-> <<StrCmd("netsh"), StrCmd("winsock"), StrCmd("reset")>>]]

restart_network_services ==
    [name |-> "restart_network_services", priority |-> 2, requires_admin |-> TRUE,
     commands |-> [
        windows |-> <<ListCmd(P_net, "net stop dnscache"),
                      ListCmd(P_timeout, "timeout 2"),
                      ListCmd(P_net, "net start dnscache"),
                      ListCmd(P_net, "net stop dhcp"),
                      ListCmd(P_timeout, "timeout 2"),
                      ListCmd(P_net, "net start dhcp")>>]]

reset_firewall ==
    [name |-> "reset_firewall", priority |-> 3, requires_admin |-> TRUE,
     commands |-> [
        windows |-> <<StrCmd("netsh"), StrCmd("advfirewall"), StrCmd("reset")>>]]

\* fixes_to_try of the four groups, as written
dns_fixes == <<flush_dns_cache, reset_dns_servers, restart_dns_service>>
connectivity_fixes == <<release_renew_ip, reset_network_adapter, reset_tcp_ip_stack>>
interface_fixes == <<disable_enable_adapter>>
windows_fixes == <<reset_winsock, restart_network_services, reset_firewall>>

\* the keys of destructive_operations, with the 'impact' of each
destructive_operations ==
    [reset_firewall |-> "HIGH RISK - May break network access for applications and services",
     reset_tcp_ip_stack |-> "MEDIUM RISK - May cause temporary network disconnection",
     disable_enable_adapter |-> "MEDIUM RISK - Brief network interruption (5-10 seconds)",
     reset_network_adapter |-> "MEDIUM RISK - May require restart for full effect"]

\* fix_config['name'] in destructive_operations
is_destructive(name) == name \in DOMAIN destructive_operations

RECURSIVE InsertByPriority(_, _)
\* fix put into the sorted list, after the entries of the same priority
InsertByPriority(sorted, fix) ==
    IF sorted = <<>> THEN <<fix>>
    ELSE IF fix.priority < Head(sorted).priority THEN <<fix>> \o sorted
         ELSE <<Head(sorted)>> \o InsertByPriority(Tail(sorted), fix)

RECURSIVE SortPrefix(_, _)
SortPrefix(fixes, n) ==
    IF n = 0 THEN <<>> ELSE InsertByPriority(SortPrefix(fixes, n - 1), fixes[n])

\* a faulty variant, for comparison: the list is left as written
sort_by_priority_none(fixes) == fixes

\* fixes_to_try.sort(key=lambda x: x['priority'])   (a stable sort)
sort_by_priority(fixes) == SortPrefix(fixes, Len(fixes))

-----------------------------------------------------------------------------
(* NetworkRepair.run_automated_fixes and NetworkRepair._attempt_fix        *)
(*                                                                         *)
(* fix_result is the result of the latest attempt with all its fields but  *)
(* execution_time.  fixes_attempted keeps of each earlier result the       *)
(* fields the pass and its callers read afterwards (name, priority,        *)
(* success).  The recommendation texts are not modelled.                   *)

\* input_calls counts the calls of input() in one attempt up to MaxInputCalls
MaxInputCalls == 2

\* platform.system().lower() on the three platforms the tables name
OsTypes == {"windows", "linux", "darwin"}

OverallStatuses == {"healthy", "minor_issues", "major_issues", "unknown"}

\* main of network_repair.py; NetworkToolkit._run_repairs_with_feedback with
\* show_progress true and false
Entries == {"main", "toolkit_progress", "toolkit_quiet"}

\* what the user may type at the prompt
RawInputs ==
    { <<"y">>, <<"Y">>, <<" ", "y", "e", "s">>, <<"Y", "E", "S", " ">>,
      <<"n">>, <<"n", "o">>, <<"N", "o">>, <<>>, <<" ", "\t">>,
      <<"s">>, <<"S", "k", "i", "p">>, <<"\t", "s", "k", "i", "p", " ">>,
      <<"y", "y">>, <<"o", "k">>, <<"y", " ", "e", "s">>, <<"n", "o", "p", "e">> }

\* run_command returns an exit code of 0 or not, or raises
\* subprocess.TimeoutExpired or FileNotFoundError
CommandOutcomes == {"zero", "nonzero", "timeout_expired", "not_found"}

Stdout(cmd) == "stdout of " \o cmd.text
Stderr(cmd) == "stderr of " \o cmd.text

\* a faulty variant, for comparison: the table is read with 'macos' on darwin
commands_of_macos(fix) ==
    LET key == IF os_type = "darwin" THEN "macos" ELSE os_type
    IN  IF key \in DOMAIN fix.commands THEN fix.commands[key] ELSE <<>>

\* fix_config.get('commands', {}).get(os_type, [])
commands_of(fix) ==
    IF os_type \in DOMAIN fix.commands THEN fix.commands[os_type] ELSE <<>>

NoOutput == [kind |-> "empty", count |-> 0, impact |-> "", parts |-> <<>>]

\* the fix_result _attempt_fix starts from
new_fix_result(fix) ==
    [name |-> fix.name, priority |-> fix.priority, success |-> FALSE,
     output |-> NoOutput, error |-> "", dry_run |-> dry_run,
     skipped |-> FALSE, user_declined |-> FALSE]

\* the auto_approve_destructive argument run_automated_fixes receives
received_auto_approve ==
    IF entry = "toolkit_quiet" THEN FALSE ELSE requested_auto_approve

\* a faulty variant, for comparison: only 'healthy' returns without fixes
attempts_fixes_unless_healthy(status) == status # "healthy"

\* if overall_status == 'healthy': return ...;
\* if overall_status in ['minor_issues', 'major_issues']: ...
attempts_fixes_for(status) ==
    status # "healthy" /\ status \in {"minor_issues", "major_issues"}

\* the conditions under which the groups are attempted
group_triggered(g) ==
    CASE g = 1 -> diagnostic_results.failed_resolutions > 0
      [] g = 2 -> diagnostic_results.failed_pings > 0
      [] g = 3 -> diagnostic_results.interface_error
      [] g = 4 -> os_type = "windows"

\* the fixes_to_try of a group when its loop starts
group_fixes(g) ==
    CASE g = 1 -> sort_by_priority(dns_fixes)
      [] g = 2 -> sort_by_priority(connectivity_fixes)
      [] g = 3 -> interface_fixes
      [] g = 4 -> sort_by_priority(windows_fixes)

\* a faulty variant, for comparison: the pass ends after its first group
next_group_first_only(g) ==
    IF g = 0 /\ \E h \in 1..4 : group_triggered(h)
    THEN CHOOSE h \in 1..4 : group_triggered(h) /\ \A k \in 1..(h - 1) : ~group_triggered(k)
    ELSE 5

\* the first triggered group after g; 5 when there is none
next_group(g) ==
    IF \E h \in (g + 1)..4 : group_triggered(h)
    THEN CHOOSE h \in (g + 1)..4 :
            group_triggered(h) /\ \A k \in (g + 1)..(h - 1) : ~group_triggered(k)
    ELSE 5

current_fix == group_fixes(group)[fix_index]

RepairIdle ==
    /\ os_type = "linux"
    /\ diagnostic_results = [overall_status |-> "healthy", failed_resolutions |-> 0,
                             failed_pings |-> 0, interface_error |-> FALSE]
    /\ dry_run = TRUE
    /\ entry = "main"
    /\ requested_auto_approve = FALSE
    /\ fix_results = [dry_run |-> TRUE, auto_approve_destructive |-> FALSE,
                      fixes_attempted |-> <<>>, fixes_successful |-> <<>>,
                      fixes_failed |-> <<>>, fixes_skipped |-> <<>>,
                      fixes_declined |-> <<>>, requires_admin |-> FALSE]
    /\ pc = "idle"
    /\ group = 0
    /\ fix_index = 0
    /\ fix_result = new_fix_result(flush_dns_cache)
    /\ cmd_index = 0
    /\ all_outputs = <<>>
    /\ run_command_calls = <<>>
    /\ input_calls = 0
    /\ executor_invoked = FALSE
    /\ prompt_invoked = FALSE

HealthIdle ==
    /\ results = Dict(<<>>)
    /\ overall_status = ""
    /\ hc_pc = "idle"

GroupIdle ==
    /\ group_method = "_fix_dns_issues"
    /\ fixes_defined = <<>>
    /\ fixes_to_try = <<>>
    /\ attempted_order = <<>>
    /\ group_pc = "idle"

ToolkitIdle ==
    /\ auto_fix = FALSE
    /\ max_fix_attempts = 1
    /\ tk_dry_run = TRUE
    /\ initial_status = "healthy"
    /\ current_status = "healthy"
    /\ attempt = 0
    /\ fix_attempts = <<>>
    /\ waits = 0
    /\ rediagnoses = 0
    /\ final_diagnostics = FALSE
    /\ tk_pc = "idle"

UpdateIdle ==
    /\ args = [dry_run |-> FALSE, no_reboot |-> FALSE, force |-> FALSE]
    /\ updater = "debian"
    /\ updater_self = [aur_helper |-> FALSE, package_manager |-> "dnf",
                       homebrew_available |-> FALSE]
    /\ config = [k \in {} |-> TRUE]
    /\ update_results = [overall_status |-> "success"]
    /\ commands_run = <<>>
    /\ update_pc = "idle"
    /\ exit_code = -1

AnalyzerIdle ==
    /\ bottlenecks = [overall_assessment |-> "normal"]
    /\ pa_pc = "idle"

TrackerIdle ==
    /\ stages = <<>>
    /\ current_stage_index = 0
    /\ current_stage_tracker = [stage |-> -1]
    /\ finishes = <<>>
    /\ ms_calls = <<>>
    /\ ms_pc = "idle"

(* HealthChecker.run_all_checks, line 85 *)

InitHealth ==
    /\ \E n \in 0..MaxLeaves :
          \E paths \in [1..n -> CheckPaths], labels \in [1..n -> Labels] :
             results = BuildResults(n, paths, labels)
    /\ overall_status = ""
    /\ hc_pc = "input"
    /\ RepairIdle
    /\ GroupIdle
    /\ ToolkitIdle
    /\ UpdateIdle
    /\ AnalyzerIdle
    /\ TrackerIdle

\* results['overall_status'] = self._calculate_overall_status(results)
CalculateOverallStatus ==
    /\ hc_pc = "input"
    /\ overall_status' = _calculate_overall_status(results)
    /\ results' = SetItem(results, "overall_status", Str(overall_status'))
    /\ hc_pc' = "done"
    /\ UNCHANGED <<rvars, gvars, tvars, uvars, avars, mvars>>

NextHealth == CalculateOverallStatus

SpecHealth == InitHealth /\ [][NextHealth]_vars

(* HealthChecker.run_all_checks with services to check: the results the   *)
(* checks return, then the aggregation                                     *)

\* the longest config['check_services']
MaxServices == 2

ServiceNames == <<"nginx", "sshd", "cron", "docker">>

\* what check_services finds for a service: its status, or an exception
\* raised while checking it
ServiceOutcomes == {"running", "stopped", "unknown", "raises"}

\* results[service] of check_services
service_entry(outcome) ==
    IF outcome = "raises"
    THEN Dict(<< <<"error", Str("exception")>>, <<"health_status", Str("error")>> >>)
    ELSE Dict(<< <<"status", Str(outcome)>>,
                 <<"health_status", Str(IF outcome = "running" THEN "ok" ELSE "warning")>> >>)

\* check_services for the first n services
check_services(n, outcomes) ==
    IF n = 0
    THEN Dict(<< <<"note", Str("No services specified for checking")>> >>)
    ELSE Dict([i \in 1..n |-> <<ServiceNames[i], service_entry(outcomes[i])>>])

\* the statuses check_disk_space and check_memory_usage report
DiskStatuses == {"ok", "warning", "critical", "error"}
MemoryStatuses == {"ok", "warning", "error"}

\* results of run_all_checks before the aggregation
InitServices ==
    /\ \E n \in 0..MaxServices :
          \E outcomes \in [1..n -> ServiceOutcomes],
             disk \in DiskStatuses, memory \in MemoryStatuses :
             results = Dict(<< <<"timestamp", Str("2025-11-01T00:00:00")>>,
                               <<"disk_space", Dict(<< <<"/", Leaf(disk)>> >>)>>,
                               <<"memory_usage", Leaf(memory)>>,
                               <<"services", check_services(n, outcomes)>> >>)
    /\ overall_status = ""
    /\ hc_pc = "input"
    /\ RepairIdle
    /\ GroupIdle
    /\ ToolkitIdle
    /\ UpdateIdle
    /\ AnalyzerIdle
    /\ TrackerIdle

SpecServices == InitServices /\ [][NextHealth]_vars

(* A group method: its list of fixes, the sort and the loop.  What        *)
(* _attempt_fix does with each fix is modelled by Spec below.              *)

\* the longest list of fixes a group method is given
MaxFixes == 3

GroupMethods ==
    {"_fix_dns_issues", "_fix_connectivity_issues", "_fix_interface_issues",
     "_fix_windows_network_issues"}

\* fixes_to_try.sort(...) is in three of the four methods
method_sorts(method) == method # "_fix_interface_issues"

\* the fixes of the tables
FixPool ==
    { dns_fixes[i] : i \in 1..3 } \cup { connectivity_fixes[i] : i \in 1..3 }
    \cup { interface_fixes[1] } \cup { windows_fixes[i] : i \in 1..3 }

\* the method's list, written in any order: for the methods that sort, any
\* list of up to MaxFixes fixes of the tables; for _fix_interface_issues,
\* which does not sort, its list of one fix
InitGroup ==
    /\ group_method \in GroupMethods
    /\ IF method_sorts(group_method)
       THEN \E n \in 0..MaxFixes : fixes_defined \in [1..n -> FixPool]
       ELSE fixes_defined = interface_fixes
    /\ fixes_to_try = fixes_defined
    /\ attempted_order = <<>>
    /\ group_pc = "defined"
    /\ HealthIdle
    /\ RepairIdle
    /\ ToolkitIdle
    /\ UpdateIdle
    /\ AnalyzerIdle
    /\ TrackerIdle

\* fixes_to_try.sort(key=lambda x: x['priority'])
SortFixes ==
    /\ group_pc = "defined"
    /\ fixes_to_try' = IF method_sorts(group_method)
                       THEN sort_by_priority(fixes_to_try) ELSE fixes_to_try
    /\ group_pc' = "loop"
    /\ UNCHANGED <<group_method, fixes_defined, attempted_order>>
    /\ UNCHANGED <<hvars, rvars, tvars, uvars, avars, mvars>>

\* one turn of 'for fix in fixes_to_try'
AttemptNextFix ==
    /\ group_pc = "loop"
    /\ Len(attempted_order) < Len(fixes_to_try)
    /\ attempted_order' = Append(attempted_order, fixes_to_try[Len(attempted_order) + 1])
    /\ UNCHANGED <<group_method, fixes_defined, fixes_to_try, group_pc>>
    /\ UNCHANGED <<hvars, rvars, tvars, uvars, avars, mvars>>

\* return fix_results
ReturnFromGroup ==
    /\ group_pc = "loop"
    /\ Len(attempted_order) = Len(fixes_to_try)
    /\ group_pc' = "returned"
    /\ UNCHANGED <<group_method, fixes_defined, fixes_to_try, attempted_order>>
    /\ UNCHANGED <<hvars, rvars, tvars, uvars, avars, mvars>>

NextGroup == SortFixes \/ AttemptNextFix \/ ReturnFromGroup

SpecGroup == InitGroup /\ [][NextGroup]_vars

(* NetworkToolkit.run_comprehensive_analysis, phases 2 and 3.  What a      *)
(* repair pass does is modelled by Spec below; here a pass is its          *)
(* fix_results, of which the loop reads whether fixes_successful is empty. *)

\* the largest max_fix_attempts
MaxFixAttempts == 3

\* after phase 1: the arguments and the status of the initial diagnostics
InitToolkit ==
    /\ auto_fix \in BOOLEAN
    /\ max_fix_attempts \in 0..MaxFixAttempts
    /\ tk_dry_run \in BOOLEAN
    /\ initial_status \in OverallStatuses
    /\ current_status = initial_status
    /\ attempt = 0
    /\ fix_attempts = <<>>
    /\ waits = 0
    /\ rediagnoses = 0
    /\ final_diagnostics = FALSE
    /\ tk_pc = "diagnosed"
    /\ HealthIdle
    /\ RepairIdle
    /\ GroupIdle
    /\ UpdateIdle
    /\ AnalyzerIdle
    /\ TrackerIdle

\* if auto_fix and initial_status != 'healthy': for attempt in range(1,
\* max_fix_attempts + 1)   (lines 141-146)
EnterRepairLoop ==
    /\ tk_pc = "diagnosed"
    /\ IF auto_fix /\ initial_status # "healthy" /\ 1 <= max_fix_attempts
       THEN /\ attempt' = 1
            /\ tk_pc' = "loop"
       ELSE /\ tk_pc' = "phase3"
            /\ UNCHANGED attempt
    /\ UNCHANGED <<auto_fix, max_fix_attempts, tk_dry_run, initial_status,
                   current_status, fix_attempts, waits, rediagnoses, final_diagnostics>>
    /\ UNCHANGED <<hvars, rvars, gvars, uvars, avars, mvars>>

\* a faulty variant, for comparison: a dry run does not end the loop
loop_continues_dry(dry, any_successful) == any_successful

\* neither 'if dry_run: break' nor 'elif not
\* fix_results.get('fixes_successful'): break'   (lines 163-168)
loop_continues(dry, any_successful) == ~dry /\ any_successful

\* one repair pass and what the loop does with its fix_results (lines
\* 147-168); a pass has successful fixes only on a status it attempts fixes
\* for
RunRepairPass(any_successful) ==
    /\ tk_pc = "loop"
    /\ any_successful => current_status \in {"minor_issues", "major_issues"}
    /\ fix_attempts' = Append(fix_attempts,
                              [attempt |-> attempt, status |-> current_status,
                               dry_run |-> tk_dry_run,
                               any_successful |-> any_successful])
    /\ tk_pc' = IF loop_continues(tk_dry_run, any_successful) THEN "settle" ELSE "phase3"
    /\ UNCHANGED <<auto_fix, max_fix_attempts, tk_dry_run, initial_status,
                   current_status, attempt, waits, rediagnoses, final_diagnostics>>
    /\ UNCHANGED <<hvars, rvars, gvars, uvars, avars, mvars>>

\* self._wait_with_feedback(10, ...)   (line 173)
WaitToSettle ==
    /\ tk_pc = "settle"
    /\ waits' = waits + 1
    /\ tk_pc' = "rediagnose"
    /\ UNCHANGED <<auto_fix, max_fix_attempts, tk_dry_run, initial_status,
                   current_status, attempt, fix_attempts, rediagnoses, final_diagnostics>>
    /\ UNCHANGED <<hvars, rvars, gvars, uvars, avars, mvars>>

\* current_results = self.diagnostics.run_full_diagnostics(target_hosts); the
\* break on 'healthy'; the next turn of the loop or its end (lines 176-181)
Rediagnose(status) ==
    /\ tk_pc = "rediagnose"
    /\ current_status' = status
    /\ rediagnoses' = rediagnoses + 1
    /\ IF status # "healthy" /\ attempt < max_fix_attempts
       THEN /\ attempt' = attempt + 1
            /\ tk_pc' = "loop"
       ELSE /\ tk_pc' = "phase3"
            /\ UNCHANGED attempt
    /\ UNCHANGED <<auto_fix, max_fix_attempts, tk_dry_run, initial_status,
                   fix_attempts, waits, final_diagnostics>>
    /\ UNCHANGED <<hvars, rvars, gvars, uvars, avars, mvars>>

\* phase 3 (lines 184-193): the final diagnostics, if fixes were applied
FinalDiagnostics ==
    /\ tk_pc = "phase3"
    /\ final_diagnostics' =
          /\ auto_fix
          /\ ~tk_dry_run
          /\ \E i \in 1..Len(fix_attempts) : fix_attempts[i].any_successful
    /\ tk_pc' = "done"
    /\ UNCHANGED <<auto_fix, max_fix_attempts, tk_dry_run, initial_status,
                   current_status, attempt, fix_attempts, waits, rediagnoses>>
    /\ UNCHANGED <<hvars, rvars, gvars, uvars, avars, mvars>>

NextToolkit ==
    \/ EnterRepairLoop
    \/ \E any_successful \in BOOLEAN : RunRepairPass(any_successful)
    \/ WaitToSettle
    \/ \E status \in OverallStatuses : Rediagnose(status)
    \/ FinalDiagnostics

SpecToolkit == InitToolkit /\ [][NextToolkit]_vars

Init ==
    /\ HealthIdle
    /\ GroupIdle
    /\ ToolkitIdle
    /\ UpdateIdle
    /\ AnalyzerIdle
    /\ TrackerIdle
    /\ os_type \in OsTypes
    /\ diagnostic_results \in [overall_status : OverallStatuses,
                               failed_resolutions : 0..1,
                               failed_pings : 0..1,
                               interface_error : BOOLEAN]
    /\ dry_run \in BOOLEAN
    /\ entry \in Entries
    /\ requested_auto_approve \in BOOLEAN
    /\ fix_results = [dry_run |-> dry_run,
                      auto_approve_destructive |-> received_auto_approve,
                      fixes_attempted |-> <<>>, fixes_successful |-> <<>>,
                      fixes_failed |-> <<>>, fixes_skipped |-> <<>>,
                      fixes_declined |-> <<>>, requires_admin |-> FALSE]
    /\ pc = "start"
    /\ group = 0
    /\ fix_index = 0
    /\ fix_result = new_fix_result(flush_dns_cache)
    /\ cmd_index = 0
    /\ all_outputs = <<>>
    /\ run_command_calls = <<>>
    /\ input_calls = 0
    /\ executor_invoked = FALSE
    /\ prompt_invoked = FALSE

\* run_automated_fixes up to the first group (lines 62-100); with
\* toolkit_progress, _run_repairs_with_feedback returns before the call when
\* it counts no fix category (lines 291-305)
StartPass ==
    /\ pc = "start"
    /\ LET status == diagnostic_results.overall_status
           total_fixes ==
               (IF group_triggered(1) THEN 3 ELSE 0) + (IF group_triggered(2) THEN 3 ELSE 0)
               + (IF group_triggered(3) THEN 1 ELSE 0) + (IF group_triggered(4) THEN 3 ELSE 0)
           no_category ==
               /\ entry = "toolkit_progress"
               /\ ~group_triggered(1) /\ ~group_triggered(2) /\ ~group_triggered(3)
               /\ ~(status \in {"minor_issues", "major_issues"} /\ os_type = "windows")
       IN IF ~no_category /\ attempts_fixes_for(status) /\ total_fixes # 0
          THEN /\ pc' = "attempt"
               /\ group' = next_group(0)
               /\ fix_index' = 1
          ELSE /\ pc' = "returned"
               /\ UNCHANGED <<group, fix_index>>
    /\ UNCHANGED <<os_type, diagnostic_results, dry_run, entry, requested_auto_approve,
                   fix_results, fix_result, cmd_index, all_outputs, run_command_calls,
                   input_calls, executor_invoked, prompt_invoked>>
    /\ UNCHANGED <<hvars, gvars, tvars, uvars, avars, mvars>>

\* a faulty variant, for comparison: the flag is never set
requires_admin_kept(before, fix) == before

\* if fix['requires_admin']: fix_results['requires_admin'] = True
requires_admin_after(before, fix) == IF fix.requires_admin THEN TRUE ELSE before

\* if fix_result['success']: fix_results['fixes_successful'].append(name)
fixes_successful_after(before, fix_res) ==
    IF fix_res.success THEN Append(before, fix_res.name) ELSE before

\* a faulty variant, for comparison: every result is appended to fixes_failed
fixes_failed_after_any(before, fix_res) == Append(before, fix_res.name)

\* else: fix_results['fixes_failed'].append(name)
fixes_failed_after(before, fix_res) ==
    IF fix_res.success THEN before ELSE Append(before, fix_res.name)

\* what a group's loop does with the fix_result _attempt_fix returned
\* (lines 196-204), and the step to the next fix, the next triggered group or
\* the return of run_automated_fixes
Returns(fix_res) ==
    /\ fix_result' = fix_res
    /\ fix_results' =
         [fix_results EXCEPT
            !.fixes_attempted = Append(@,
                [name |-> fix_res.name, priority |-> fix_res.priority,
                 success |-> fix_res.success]),
            !.fixes_successful = fixes_successful_after(@, fix_res),
            !.fixes_failed = fixes_failed_after(@, fix_res),
            !.requires_admin = requires_admin_after(@, current_fix)]
    /\ IF fix_index < Len(group_fixes(group))
       THEN /\ pc' = "attempt"
            /\ fix_index' = fix_index + 1
            /\ group' = group
       ELSE IF next_group(group) <= 4
            THEN /\ pc' = "attempt"
                 /\ fix_index' = 1
                 /\ group' = next_group(group)
            ELSE /\ pc' = "returned"
                 /\ UNCHANGED <<group, fix_index>>

\* a faulty variant, for comparison: only a timeout is caught
except_TimeoutExpired(exc) == exc = "TimeoutExpired"

\* except Exception as e (line 519): the exceptions the body of the try
\* raises that are instances of Exception
except_Exception(exc) ==
    exc \in {"TimeoutExpired", "FileNotFoundError", "TypeError", "EOFError"}

\* the body of the try of _attempt_fix raises exc with str(exc) = text: the
\* except clause makes it the error of the result, which is returned; an
\* exception it does not catch leaves run_automated_fixes
Raises(exc, text) ==
    IF except_Exception(exc)
    THEN Returns([fix_result EXCEPT !.error = text])
    ELSE /\ pc' = "crashed"
         /\ UNCHANGED <<fix_results, fix_result, group, fix_index>>

\* a faulty variant, for comparison: the confirmation is asked for in a dry run too
needs_confirmation_always(fix) == is_destructive(fix.name)

\* fix_config['name'] in destructive_operations and not dry_run
needs_confirmation(fix) == is_destructive(fix.name) /\ ~dry_run

\* a faulty variant, for comparison: the impact is left out
dry_run_output_plain(fix, commands) ==
    [kind |-> "dry_run", count |-> Len(commands), impact |-> "", parts |-> <<>>]

\* f"DRY RUN: Would execute {len(commands)} command(s)", with
\* f" [{destructive_info['impact']}]" for a destructive action (lines 489-493)
dry_run_output(fix, commands) ==
    [kind |-> "dry_run", count |-> Len(commands),
     impact |-> IF is_destructive(fix.name)
                THEN destructive_operations[fix.name] ELSE "",
     parts |-> <<>>]

\* _attempt_fix up to the prompt, the dry-run return or the first command
\* (lines 411-495)
BeginAttempt ==
    /\ pc = "attempt"
    /\ LET fix == current_fix
           commands == commands_of(fix)
           fresh == new_fix_result(fix)
       IN IF commands = <<>>
          THEN Returns([fresh EXCEPT !.error = "No commands defined for " \o os_type])
          ELSE IF needs_confirmation(fix)
          THEN /\ pc' = "prompt"
               /\ fix_result' = fresh
               /\ UNCHANGED <<fix_results, group, fix_index>>
          ELSE IF dry_run
          THEN Returns([fresh EXCEPT !.output = dry_run_output(fix, commands),
                                     !.success = TRUE])
          ELSE /\ pc' = "exec"
               /\ fix_result' = fresh
               /\ UNCHANGED <<fix_results, group, fix_index>>
    /\ cmd_index' = 1
    /\ all_outputs' = <<>>
    /\ run_command_calls' = <<>>
    /\ input_calls' = 0
    /\ UNCHANGED <<os_type, diagnostic_results, dry_run, entry, requested_auto_approve,
                   executor_invoked, prompt_invoked>>
    /\ UNCHANGED <<hvars, gvars, tvars, uvars, avars, mvars>>

\* choice == 'y' or choice == 'yes'
IsYes(choice) == choice = <<"y">> \/ choice = <<"y", "e", "s">>

\* choice == 's' or choice == 'skip'
IsSkip(choice) == choice = <<"s">> \/ choice = <<"s", "k", "i", "p">>

\* a faulty variant, for comparison: the empty answer is not a decline
IsNo_not_empty(choice) == choice = <<"n">> \/ choice = <<"n", "o">>

\* choice == 'n' or choice == 'no' or choice == ''
IsNo(choice) == choice = <<"n">> \/ choice = <<"n", "o">> \/ choice = <<>>

\* a faulty variant, for comparison: a skip is not a success
skipped_result_failed(fix_res) ==
    [fix_res EXCEPT !.skipped = TRUE,
                    !.output = [NoOutput EXCEPT !.kind = "skipped"]]

\* the result of a skip (lines 475-477)
skipped_result(fix_res) ==
    [fix_res EXCEPT !.skipped = TRUE, !.success = TRUE,
                    !.output = [NoOutput EXCEPT !.kind = "skipped"]]

\* a faulty variant, for comparison: a decline sets no error
declined_result_no_error(fix_res) == [fix_res EXCEPT !.user_declined = TRUE]

\* the result of a decline (lines 481-482)
declined_result(fix_res) ==
    [fix_res EXCEPT !.user_declined = TRUE,
                    !.error = "User declined to execute this fix"]

\* a faulty variant, for comparison: the answer is compared as typed
normalize_choice_raw(raw) == raw

\* input(...).strip().lower()
normalize_choice(raw) == Lower(Strip(raw))

\* one more call of input(), counted up to MaxInputCalls
count_call(n) == IF n < MaxInputCalls THEN n + 1 ELSE n

\* one turn of the prompt loop (lines 467-485): input() returns raw
ReadInput(raw) ==
    /\ pc = "prompt"
    /\ LET choice == normalize_choice(raw)
       IN IF IsYes(choice)
          THEN /\ pc' = "exec"
               /\ UNCHANGED <<fix_results, fix_result, group, fix_index>>
          ELSE IF IsSkip(choice)
          THEN Returns(skipped_result(fix_result))
          ELSE IF IsNo(choice)
          THEN Returns(declined_result(fix_result))
          ELSE UNCHANGED <<pc, fix_results, fix_result, group, fix_index>>
    /\ input_calls' = count_call(input_calls)
    /\ prompt_invoked' = TRUE
    /\ UNCHANGED <<os_type, diagnostic_results, dry_run, entry, requested_auto_approve,
                   cmd_index, all_outputs, run_command_calls, executor_invoked>>
    /\ UNCHANGED <<hvars, gvars, tvars, uvars, avars, mvars>>

\* str(EOFError) as input() raises it
input_error == "EOF when reading a line"

\* input() raises EOFError (no terminal attached); the except clause of
\* _attempt_fix turns it into the error of the result (lines 519-520)
InputRaises ==
    /\ pc = "prompt"
    /\ Raises("EOFError", input_error)
    /\ input_calls' = count_call(input_calls)
    /\ prompt_invoked' = TRUE
    /\ UNCHANGED <<os_type, diagnostic_results, dry_run, entry, requested_auto_approve,
                   cmd_index, all_outputs, run_command_calls, executor_invoked>>
    /\ UNCHANGED <<hvars, gvars, tvars, uvars, avars, mvars>>

\* str(e) of the exceptions CommandRunner.run_command re-raises, and of the
\* TypeError of a call with shell=True
timeout_error(cmd) == "Command timed out: " \o cmd.text
not_found_error(cmd) == "No such file or directory: " \o cmd.text
shell_error == "run_command() got an unexpected keyword argument 'shell'"

\* a faulty variant, for comparison: no exit code ends the action
aborts_on_failure_never(cmd) == FALSE

\* 'timeout' not in cmd[0].lower()
aborts_on_failure(cmd) == ~Contains(Lower(cmd.prog), P_timeout)

\* one turn of the loop over commands for a command given as a list
\* (lines 500-506, and 516-517 after the last command)
RunCommand(outcome) ==
    /\ pc = "exec"
    /\ LET commands == commands_of(current_fix)
           cmd == commands[cmd_index]
           outputs == Append(all_outputs, <<cmd.text, Stdout(cmd)>>)
       IN /\ cmd.shape = "list"
          /\ IF outcome = "timeout_expired"
             THEN /\ Raises("TimeoutExpired", timeout_error(cmd))
                  /\ UNCHANGED <<cmd_index, all_outputs>>
             ELSE IF outcome = "not_found"
             THEN /\ Raises("FileNotFoundError", not_found_error(cmd))
                  /\ UNCHANGED <<cmd_index, all_outputs>>
             ELSE IF outcome = "nonzero" /\ aborts_on_failure(cmd)
             THEN /\ Returns([fix_result EXCEPT !.error = "Command failed: " \o Stderr(cmd)])
                  /\ all_outputs' = outputs
                  /\ UNCHANGED cmd_index
             ELSE IF cmd_index = Len(commands)
             THEN /\ Returns([fix_result EXCEPT
                         !.output = [NoOutput EXCEPT !.kind = "joined", !.parts = outputs],
                         !.success = TRUE])
                  /\ all_outputs' = outputs
                  /\ UNCHANGED cmd_index
             ELSE /\ cmd_index' = cmd_index + 1
                  /\ all_outputs' = outputs
                  /\ UNCHANGED <<pc, fix_results, fix_result, group, fix_index>>
          /\ run_command_calls' =
                Append(run_command_calls, [text |-> cmd.text, outcome |-> outcome])
    /\ executor_invoked' = TRUE
    /\ UNCHANGED <<os_type, diagnostic_results, dry_run, entry, requested_auto_approve,
                   input_calls, prompt_invoked>>
    /\ UNCHANGED <<hvars, gvars, tvars, uvars, avars, mvars>>

\* one turn of the loop over commands for a command given as a string
\* (line 509): run_command has no parameter 'shell', the call raises
\* TypeError before run_command runs, and the except clause of _attempt_fix
\* turns it into the error of the result
CallShellCommand ==
    /\ pc = "exec"
    /\ commands_of(current_fix)[cmd_index].shape = "str"
    /\ Raises("TypeError", shell_error)
    /\ UNCHANGED <<os_type, diagnostic_results, dry_run, entry, requested_auto_approve,
                   cmd_index, all_outputs, run_command_calls, input_calls,
                   executor_invoked, prompt_invoked>>
    /\ UNCHANGED <<hvars, gvars, tvars, uvars, avars, mvars>>

Next ==
    \/ StartPass
    \/ BeginAttempt
    \/ \E raw \in RawInputs : ReadInput(raw)
    \/ InputRaises
    \/ \E outcome \in CommandOutcomes : RunCommand(outcome)
    \/ CallShellCommand

Spec == Init /\ [][Next]_vars

-----------------------------------------------------------------------------
(* The update orchestrator (auto_update.py: main, run_updates) and          *)
(* run_update_cycle of DebianUpdater, ArchUpdater, FedoraUpdater and        *)
(* MacOSUpdater.                                                            *)
(*                                                                         *)
(* A configuration is the function from its boolean keys to their values;  *)
(* the keys that only shape a command line (security_only, timeouts, lists *)
(* of excluded packages) are left out.  A step of the cycle is one method  *)
(* call of run_update_cycle; its calls of CommandRunner.run_command are    *)
(* recorded in commands_run by the text of the command.                    *)

Updaters == {"debian", "arch", "fedora", "macos"}

EmptyDict == [k \in {} |-> TRUE]

\* d.update(other)
dict_update(d, other) ==
    [k \in DOMAIN d \cup DOMAIN other |-> IF k \in DOMAIN other THEN other[k] ELSE d[k]]

\* AutoUpdateOrchestrator._load_config: default_config
default_config ==
    [pre_update_health_check |-> TRUE, post_update_health_check |-> TRUE,
     backup_important_configs |-> TRUE]

\* main: dry_run_config
dry_run_config ==
    [update_system |-> FALSE, update_aur |-> FALSE, update_app_store |-> FALSE,
     update_homebrew |-> FALSE, unattended_upgrade |-> FALSE, auto_reboot |-> FALSE,
     auto_restart |-> FALSE, clean_cache |-> FALSE, remove_old_kernels |-> FALSE,
     clean_orphans |-> FALSE]

\* main: update_kwargs as built from --dry-run, --no-reboot and --force
update_kwargs(a) ==
    LET dry == IF a.dry_run THEN dry_run_config ELSE EmptyDict
        no_reboot ==
            IF a.no_reboot
            THEN dict_update(dry, [auto_reboot |-> FALSE, auto_restart |-> FALSE])
            ELSE dry
    IN  IF a.force
        THEN dict_update(no_reboot, [pre_update_health_check |-> FALSE])
        ELSE no_reboot

\* the default configuration of each updater's __init__
updater_defaults(u) ==
    CASE u = "debian" ->
            [enable_auto_updates |-> TRUE, auto_reboot |-> FALSE,
             update_package_lists |-> TRUE, unattended_upgrade |-> TRUE,
             auto_remove |-> TRUE, auto_clean |-> TRUE,
             pre_update_health_check |-> TRUE, post_update_health_check |-> TRUE,
             backup_important_configs |-> TRUE]
      [] u = "arch" ->
            [update_system |-> TRUE, update_aur |-> FALSE, clean_cache |-> TRUE,
             clean_orphans |-> TRUE, update_mirrorlist |-> FALSE,
             backup_pacman_db |-> TRUE, pre_update_health_check |-> TRUE,
             post_update_health_check |-> TRUE]
      [] u = "fedora" ->
            [update_system |-> TRUE, auto_reboot |-> FALSE,
             enable_auto_updates |-> FALSE, clean_cache |-> TRUE,
             remove_old_kernels |-> TRUE, update_firmware |-> FALSE,
             check_repositories |-> TRUE, backup_important_configs |-> TRUE,
             pre_update_health_check |-> TRUE, post_update_health_check |-> TRUE]
      [] u = "macos" ->
            [update_system |-> TRUE, update_app_store |-> TRUE,
             update_homebrew |-> TRUE, auto_restart |-> FALSE,
             homebrew_upgrade_all |-> TRUE, homebrew_cleanup |-> TRUE,
             backup_homebrew_bundle |-> TRUE, check_xcode_tools |-> TRUE,
             pre_update_health_check |-> TRUE, post_update_health_check |-> TRUE]

\* run_updates and the updater's __init__: the defaults of the updater,
\* updated with the orchestrator's configuration (its defaults, the
\* configuration file, then the command line)
updater_config(u, file_config, a) ==
    dict_update(updater_defaults(u),
                dict_update(dict_update(default_config, file_config), update_kwargs(a)))

\* the configuration files the cycles are run with
FileConfigs ==
    { EmptyDict,
      [auto_reboot |-> TRUE, auto_restart |-> TRUE],
      [update_aur |-> TRUE, update_firmware |-> TRUE, enable_auto_updates |-> TRUE,
       update_mirrorlist |-> TRUE],
      [auto_remove |-> FALSE, auto_clean |-> FALSE, update_package_lists |-> FALSE,
       post_update_health_check |-> FALSE] }

\* the overall_status values HealthChecker.run_all_checks returns
HealthStatuses == {"ok", "warning", "critical"}

\* the steps of each run_update_cycle in the order of its statements
program(u) ==
    CASE u = "debian" ->
            <<"pre_health", "sync", "check", "backup", "update", "cleanup",
              "reboot_check", "post_health", "reboot">>
      [] u = "arch" ->
            <<"pre_health", "backup", "mirrorlist", "sync", "check", "update",
              "update2", "cleanup", "post_health">>
      [] u = "fedora" ->
            <<"pre_health", "backup", "sync", "check", "update", "update2",
              "cleanup", "reboot_check", "auto_updates", "post_health", "reboot">>
      [] u = "macos" ->
            <<"pre_health", "xcode", "check", "update", "update2", "homebrew",
              "reboot_check", "reboot", "post_health">>

\* the step after s, "returned" after the last one
next_step(u, s) ==
    LET i == CHOOSE j \in 1..Len(program(u)) : program(u)[j] = s
    IN  IF i = Len(program(u)) THEN "returned" ELSE program(u)[i + 1]

\* a call of run_command: the command, whether check_return_code is set,
\* and whether the call is inside a helper's own try/except Exception, so
\* that its failure leaves the step's result as it is
Cmd(name, check) == [name |-> name, check |-> check, guarded |-> FALSE]
Guarded(name) == [name |-> name, check |-> FALSE, guarded |-> TRUE]

Names(cmds) == [i \in 1..Len(cmds) |-> cmds[i].name]

\* how the calls of a step can end: all return (at = 0), or the at-th one
\* exits non-zero with check_return_code set (CalledProcessError) or raises
\* TimeoutExpired or FileNotFoundError
FailureModes(cmds) ==
    {[at |-> 0, how |-> "none"]} \cup
    { f \in [at : 1..Len(cmds), how : {"nonzero", "raises"}] :
        /\ ~cmds[f.at].guarded
        /\ f.how = "nonzero" => cmds[f.at].check }

\* the calls made when the step ends as f says
Ran(cmds, f) == IF f.at = 0 THEN cmds ELSE SubSeq(cmds, 1, f.at)

\* results[key] = status
set_step(res, key, status) ==
    [res EXCEPT !.steps = dict_update(@, (key :> status))]

\* except Exception of run_update_cycle
cycle_failed(res) == [res EXCEPT !.overall_status = "failed", !.error = TRUE]

\* a step that is not configured
SkipStep ==
    /\ update_pc' = next_step(updater, update_pc)
    /\ UNCHANGED <<update_results, commands_run>>

\* a method that runs cmds in a try block and whose result is stored under
\* key: ok from the try block, failed from its except clause, which
\* catches every Exception (catches_all) or CalledProcessError only; any
\* other exception leaves run_update_cycle through its except clause
RunMethod(key, cmds, f, catches_all, ok, failed) ==
    /\ commands_run' = commands_run \o Names(Ran(cmds, f))
    /\ IF f.at = 0
       THEN /\ update_results' = set_step(update_results, key, ok)
            /\ update_pc' = next_step(updater, update_pc)
       ELSE IF catches_all \/ f.how = "nonzero"
       THEN /\ update_results' = set_step(update_results, key, failed)
            /\ update_pc' = next_step(updater, update_pc)
       ELSE /\ update_results' = cycle_failed(update_results)
            /\ update_pc' = "returned"

\* a method without a result whose try block runs cmds and catches every
\* Exception
RunVoidMethod(cmds, f) ==
    /\ commands_run' = commands_run \o Names(Ran(cmds, f))
    /\ update_pc' = next_step(updater, update_pc)
    /\ UNCHANGED update_results

InitUpdate ==
    /\ HealthIdle
    /\ RepairIdle
    /\ GroupIdle
    /\ ToolkitIdle
    /\ AnalyzerIdle
    /\ TrackerIdle
    /\ args \in [dry_run : BOOLEAN, no_reboot : BOOLEAN, force : BOOLEAN]
    /\ updater \in Updaters
    /\ \E tool \in BOOLEAN :
          updater_self =
             [aur_helper |-> updater = "arch" /\ tool,
              package_manager |-> IF updater = "fedora" /\ ~tool THEN "yum" ELSE "dnf",
              homebrew_available |-> updater = "macos" /\ tool]
    /\ \E file_config \in FileConfigs :
          config = updater_config(updater, file_config, args)
    /\ update_results =
          [overall_status |-> "success", pre_update_health |-> "None",
           available_updates |-> [checked |-> FALSE, has_updates |-> FALSE,
                                  app_store_updates |-> FALSE],
           steps |-> [k \in {} |-> ""], post_update_health |-> "None",
           reboot_required |-> FALSE, error |-> FALSE]
    /\ commands_run = <<>>
    /\ update_pc = "pre_health"
    /\ exit_code = -1

\* a faulty variant, for comparison: no status of the health check aborts
aborts_on_nothing(status) == FALSE

\* if results['pre_update_health']['overall_status'] == 'critical'
aborts_on(status) == status = "critical"

UpdateFrame == UNCHANGED <<args, updater, updater_self, config, exit_code>>

OthersOfUpdate == UNCHANGED <<hvars, rvars, gvars, tvars, avars, mvars>>

\* if self.config['pre_update_health_check']: ...; a critical status
\* returns results with overall_status 'aborted'
PreUpdateHealthCheck(status) ==
    /\ update_pc = "pre_health"
    /\ IF config["pre_update_health_check"]
       THEN IF aborts_on(status)
            THEN /\ update_results' = [update_results EXCEPT
                                          !.pre_update_health = status,
                                          !.overall_status = "aborted"]
                 /\ update_pc' = "returned"
            ELSE /\ update_results' = [update_results EXCEPT !.pre_update_health = status]
                 /\ update_pc' = next_step(updater, update_pc)
       ELSE /\ update_pc' = next_step(updater, update_pc)
            /\ UNCHANGED update_results
    /\ UNCHANGED commands_run
    /\ UpdateFrame
    /\ OthersOfUpdate

\* _backup_configs (Debian, Fedora), _backup_pacman_database (Arch)
BackupConfigs(f) ==
    /\ update_pc = "backup"
    /\ LET key == IF updater = "arch" THEN "backup_pacman_db"
                  ELSE "backup_important_configs"
           cmds == <<Cmd("sudo cp -r", TRUE)>>
       IN  IF config[key]
           THEN f \in FailureModes(cmds) /\ RunVoidMethod(cmds, f)
           ELSE f.at = 0 /\ SkipStep
    /\ UpdateFrame
    /\ OthersOfUpdate

\* ArchUpdater._update_mirrorlist; its result is not stored
UpdateMirrorlist(reflector, f) ==
    /\ update_pc = "mirrorlist"
    /\ LET cmds == IF reflector THEN <<Cmd("sudo reflector --save", TRUE)>> ELSE <<>>
       IN  IF config["update_mirrorlist"]
           THEN f \in FailureModes(cmds) /\ RunVoidMethod(cmds, f)
           ELSE f.at = 0 /\ ~reflector /\ SkipStep
    /\ UpdateFrame
    /\ OthersOfUpdate

\* the key that enables the refresh of the package lists; Arch always syncs
sync_enabled ==
    CASE updater = "debian" -> config["update_package_lists"]
      [] updater = "arch" -> TRUE
      [] updater = "fedora" -> config["check_repositories"]

sync_key ==
    CASE updater = "debian" -> "package_list_update"
      [] updater = "arch" -> "database_sync"
      [] updater = "fedora" -> "repository_refresh"

sync_cmds ==
    CASE updater = "debian" -> <<Cmd("sudo apt update", TRUE)>>
      [] updater = "arch" -> <<Cmd("sudo pacman -Sy", TRUE)>>
      [] updater = "fedora" ->
            <<Cmd("sudo dnf clean metadata", TRUE), Cmd("sudo dnf makecache", TRUE),
              Guarded("dnf repolist enabled")>>

\* _update_package_lists (Debian), _sync_databases (Arch),
\* _refresh_repositories (Fedora)
SyncRepositories(f) ==
    /\ update_pc = "sync"
    /\ IF sync_enabled
       THEN /\ f \in FailureModes(sync_cmds)
            /\ RunMethod(sync_key, sync_cmds, f, FALSE, "success", "failed")
       ELSE f.at = 0 /\ SkipStep
    /\ UpdateFrame
    /\ OthersOfUpdate

\* MacOSUpdater._check_xcode_tools
CheckXcodeTools(found, f) ==
    /\ update_pc = "xcode"
    /\ LET cmds == IF found THEN <<Cmd("xcode-select -p", FALSE)>>
                   ELSE <<Cmd("xcode-select -p", FALSE),
                          Cmd("xcode-select --install", FALSE)>>
       IN  IF config["check_xcode_tools"]
           THEN /\ f \in FailureModes(cmds)
                /\ RunMethod("xcode_tools_check", cmds, f, TRUE,
                             IF found THEN "installed" ELSE "installation_triggered",
                             "unknown")
           ELSE f.at = 0 /\ found /\ SkipStep
    /\ UpdateFrame
    /\ OthersOfUpdate

\* the commands of _check_available_updates and its helpers
check_cmds ==
    CASE updater = "debian" ->
            <<Cmd("apt list --upgradable", FALSE),
              Guarded("sudo unattended-upgrade --dry-run --debug")>>
      [] updater = "arch" ->
            <<Cmd("pacman -Qu", FALSE)>> \o
            (IF updater_self.aur_helper /\ config["update_aur"]
             THEN <<Guarded("yay -Qua")>> ELSE <<>>)
      [] updater = "fedora" ->
            <<Cmd("dnf check-update", FALSE), Guarded("dnf updateinfo list security")>>
      [] updater = "macos" ->
            <<Guarded("softwareupdate --list")>> \o
            (IF config["update_app_store"] THEN <<Guarded("mas outdated")>> ELSE <<>>) \o
            (IF config["update_homebrew"] /\ updater_self.homebrew_available
             THEN <<Guarded("brew update"), Guarded("brew outdated")>> ELSE <<>>)

\* whether run_update_cycle sets 'no_updates' after the check
reports_no_updates(available) ==
    CASE updater = "debian" -> ~available.has_updates
      [] updater = "arch" -> ~available.has_updates /\ ~config["update_aur"]
      [] updater = "fedora" -> ~available.has_updates
      [] updater = "macos" -> FALSE

\* _check_available_updates and the test of has_updates that follows it;
\* a failure of its first command gives has_updates False.  The Debian
\* cycle returns at once when there are no updates.
CheckAvailableUpdates(has_updates, app_store_updates, f) ==
    /\ update_pc = "check"
    /\ f \in FailureModes(check_cmds)
    /\ (app_store_updates => updater = "macos" /\ config["update_app_store"])
    /\ (f.at # 0 => ~has_updates /\ ~app_store_updates)
    /\ LET available == [checked |-> TRUE, has_updates |-> has_updates,
                         app_store_updates |-> app_store_updates]
           checked == [update_results EXCEPT !.available_updates = available]
       IN  /\ commands_run' = commands_run \o Names(Ran(check_cmds, f))
           /\ IF reports_no_updates(available)
              THEN /\ update_results' = [checked EXCEPT !.overall_status = "no_updates"]
                   /\ update_pc' = IF updater = "debian" THEN "returned"
                                   ELSE next_step(updater, update_pc)
              ELSE /\ update_results' = checked
                   /\ update_pc' = next_step(updater, update_pc)
    /\ UpdateFrame
    /\ OthersOfUpdate

\* the condition under which the cycle calls the method that installs the
\* system's updates
update_enabled ==
    LET available == update_results.available_updates
    IN  CASE updater = "debian" -> config["unattended_upgrade"]
          [] updater = "arch" ->
                /\ available.has_updates \/ config["update_aur"]
                /\ config["update_system"] /\ available.has_updates
          [] updater = "fedora" -> available.has_updates /\ config["update_system"]
          [] updater = "macos" -> config["update_system"] /\ available.has_updates

update_key == IF updater = "debian" THEN "update_execution" ELSE "system_update"

update_cmds ==
    CASE updater = "debian" ->
            <<Guarded("sudo cp /tmp/50unattended-upgrades /etc/apt/apt.conf.d"),
              Guarded("sudo chmod 644 /etc/apt/apt.conf.d/50unattended-upgrades"),
              Cmd("sudo unattended-upgrade --verbose", TRUE)>>
      [] updater = "arch" -> <<Cmd("sudo pacman -Su", TRUE)>>
      [] updater = "fedora" -> <<Cmd("sudo dnf update -y", TRUE)>>
      [] updater = "macos" -> <<Cmd("sudo softwareupdate --install", TRUE)>>

\* _run_unattended_upgrade (Debian), _update_system_packages (Arch,
\* Fedora), _update_system (macOS)
UpdateSystem(f) ==
    /\ update_pc = "update"
    /\ IF update_enabled
       THEN /\ f \in FailureModes(update_cmds)
            /\ RunMethod(update_key, update_cmds, f, FALSE, "success", "failed")
       ELSE f.at = 0 /\ SkipStep
    /\ UpdateFrame
    /\ OthersOfUpdate

\* the condition under which the cycle calls the second update method
update2_enabled ==
    LET available == update_results.available_updates
    IN  CASE updater = "arch" ->
                /\ available.has_updates \/ config["update_aur"]
                /\ config["update_aur"] /\ updater_self.aur_helper
          [] updater = "fedora" -> available.has_updates /\ config["update_firmware"]
          [] updater = "macos" ->
                config["update_app_store"] /\ available.app_store_updates

\* _update_aur_packages (Arch), _update_firmware (Fedora), _update_app_store
\* (macOS); tool: fwupdmgr or mas is installed; found: the AUR helper
\* exited with 0, fwupdmgr lists updates
UpdateSecondary(tool, found, f) ==
    /\ update_pc = "update2"
    /\ IF update2_enabled
       THEN CASE updater = "arch" ->
                   LET cmds == <<Cmd("yay -Sua", FALSE)>>
                   IN  /\ tool
                       /\ f \in FailureModes(cmds)
                       /\ RunMethod("aur_update", cmds, f, FALSE,
                                    IF found THEN "success" ELSE "partial", "failed")
              [] updater = "fedora" ->
                   LET cmds ==
                          IF ~tool THEN <<>>
                          ELSE <<Cmd("sudo fwupdmgr refresh", FALSE),
                                 Cmd("fwupdmgr get-updates", FALSE)>> \o
                               (IF found
                                THEN <<Cmd("sudo fwupdmgr update --assume-yes", TRUE)>>
                                ELSE <<>>)
                   IN  /\ ~tool => ~found
                       /\ f \in FailureModes(cmds)
                       /\ RunMethod("firmware_update", cmds, f, TRUE,
                                    IF tool THEN "success" ELSE "skipped", "failed")
              [] updater = "macos" ->
                   LET cmds == IF tool THEN <<Cmd("mas upgrade", TRUE)>> ELSE <<>>
                   IN  /\ found
                       /\ f \in FailureModes(cmds)
                       /\ RunMethod("app_store_update", cmds, f, FALSE,
                                    IF tool THEN "success" ELSE "skipped", "failed")
       ELSE f.at = 0 /\ tool /\ found /\ SkipStep
    /\ UpdateFrame
    /\ OthersOfUpdate

homebrew_cmds ==
    (IF config["backup_homebrew_bundle"] THEN <<Guarded("brew bundle dump")>> ELSE <<>>) \o
    <<Cmd("brew update", TRUE)>> \o
    (IF config["homebrew_upgrade_all"] THEN <<Cmd("brew upgrade", TRUE)>> ELSE <<>>) \o
    (IF config["homebrew_cleanup"] THEN <<Cmd("brew cleanup", TRUE)>> ELSE <<>>)

\* has_any_updates of the macOS cycle: one of the three update branches ran
has_any_updates(res) ==
    {"system_update", "app_store_update", "homebrew_update"} \cap DOMAIN res.steps # {}

\* MacOSUpdater._update_homebrew and the test of has_any_updates after it
UpdateHomebrew(f) ==
    /\ update_pc = "homebrew"
    /\ IF config["update_homebrew"] /\ updater_self.homebrew_available
       THEN /\ f \in FailureModes(homebrew_cmds)
            /\ RunMethod("homebrew_update", homebrew_cmds, f, FALSE, "success", "error")
       ELSE /\ f.at = 0
            /\ update_pc' = next_step(updater, update_pc)
            /\ update_results' =
                  IF has_any_updates(update_results) THEN update_results
                  ELSE [update_results EXCEPT !.overall_status = "no_updates"]
            /\ UNCHANGED commands_run
    /\ UpdateFrame
    /\ OthersOfUpdate

\* the condition under which the cycle calls _cleanup_system
cleanup_enabled ==
    CASE updater = "debian" -> config["auto_remove"] \/ config["auto_clean"]
      [] updater = "arch" -> config["clean_cache"] \/ config["clean_orphans"]
      [] updater = "fedora" -> config["clean_cache"] \/ config["remove_old_kernels"]

\* the commands of _cleanup_system; found: pacman lists orphaned packages,
\* more kernels are installed than are kept
cleanup_cmds(found) ==
    CASE updater = "debian" ->
            (IF config["auto_remove"] THEN <<Cmd("sudo apt autoremove -y", TRUE)>>
             ELSE <<>>) \o
            (IF config["auto_clean"] THEN <<Cmd("sudo apt autoclean", TRUE)>> ELSE <<>>)
      [] updater = "arch" ->
            (IF config["clean_orphans"]
             THEN <<Cmd("pacman -Qdtq", FALSE)>> \o
                  (IF found THEN <<Cmd("sudo pacman -Rns", TRUE)>> ELSE <<>>)
             ELSE <<>>) \o
            (IF config["clean_cache"] THEN <<Cmd("sudo pacman -Sc", TRUE)>> ELSE <<>>)
      [] updater = "fedora" ->
            (IF config["clean_cache"] THEN <<Cmd("sudo dnf clean all", TRUE)>>
             ELSE <<>>) \o
            (IF config["remove_old_kernels"]
             THEN <<Guarded("dnf list installed kernel")>> \o
                  (IF found THEN <<Guarded("sudo dnf remove -y kernel")>> ELSE <<>>)
             ELSE <<>>) \o
            (IF updater_self.package_manager = "dnf"
             THEN <<Cmd("sudo dnf autoremove -y", FALSE)>> ELSE <<>>)

\* _cleanup_system of the Debian, Arch and Fedora updaters
CleanupSystem(found, f) ==
    /\ update_pc = "cleanup"
    /\ IF cleanup_enabled
       THEN /\ f \in FailureModes(cleanup_cmds(found))
            /\ RunMethod("cleanup", cleanup_cmds(found), f, FALSE, "success", "error")
       ELSE f.at = 0 /\ found /\ SkipStep
    /\ UpdateFrame
    /\ OthersOfUpdate

\* _check_reboot_required (Debian: a file exists; Fedora: needs-restarting
\* or the installed kernels), _check_restart_required (macOS)
CheckRebootRequired(required) ==
    /\ update_pc = "reboot_check"
    /\ update_results' = [update_results EXCEPT !.reboot_required = required]
    /\ commands_run' = commands_run \o
          (CASE updater = "debian" -> <<>>
             [] updater = "fedora" -> <<"needs-restarting -r">>
             [] updater = "macos" -> <<"softwareupdate --list">>)
    /\ update_pc' = next_step(updater, update_pc)
    /\ UpdateFrame
    /\ OthersOfUpdate

\* FedoraUpdater._configure_auto_updates; tool: dnf-automatic is installed
ConfigureAutoUpdates(tool, f) ==
    /\ update_pc = "auto_updates"
    /\ LET cmds == IF tool
                   THEN <<Cmd("sudo dnf install -y dnf-automatic", TRUE),
                          Cmd("sudo systemctl enable --now dnf-automatic.timer", TRUE)>>
                   ELSE <<>>
       IN  IF config["enable_auto_updates"]
           THEN f \in FailureModes(cmds) /\ RunVoidMethod(cmds, f)
           ELSE f.at = 0 /\ tool /\ SkipStep
    /\ UpdateFrame
    /\ OthersOfUpdate

\* if self.config['post_update_health_check']: ...
PostUpdateHealthCheck(status) ==
    /\ update_pc = "post_health"
    /\ IF config["post_update_health_check"]
       THEN update_results' = [update_results EXCEPT !.post_update_health = status]
       ELSE status = "ok" /\ UNCHANGED update_results
    /\ update_pc' = next_step(updater, update_pc)
    /\ UNCHANGED commands_run
    /\ UpdateFrame
    /\ OthersOfUpdate

\* if results['reboot_required'] and self.config['auto_reboot']:
\* self._schedule_reboot() (Debian, Fedora); _schedule_restart (macOS)
ScheduleReboot(f) ==
    /\ update_pc = "reboot"
    /\ LET key == IF updater = "macos" THEN "auto_restart" ELSE "auto_reboot"
           cmds == IF updater = "macos" THEN <<Cmd("sudo shutdown -r", TRUE)>>
                   ELSE <<Cmd("sudo sh -c 'echo systemctl reboot | at'", TRUE)>>
       IN  IF update_results.reboot_required /\ config[key]
           THEN f \in FailureModes(cmds) /\ RunVoidMethod(cmds, f)
           ELSE f.at = 0 /\ SkipStep
    /\ UpdateFrame
    /\ OthersOfUpdate

\* main: success_statuses = ['success', 'no_updates']
exit_code_of(status) == IF status \in {"success", "no_updates"} THEN 0 ELSE 1

\* main: sys.exit(0 if results['overall_status'] in success_statuses else 1)
Exit ==
    /\ update_pc = "returned"
    /\ exit_code' = exit_code_of(update_results.overall_status)
    /\ update_pc' = "exited"
    /\ UNCHANGED <<args, updater, updater_self, config, update_results, commands_run>>
    /\ OthersOfUpdate

\* the longest list of commands of a step
MaxCmds == 4

Failures == [at : 0..MaxCmds, how : {"none", "nonzero", "raises"}]

NextUpdate ==
    \/ \E status \in HealthStatuses : PreUpdateHealthCheck(status)
    \/ \E f \in Failures : BackupConfigs(f)
    \/ \E reflector \in BOOLEAN, f \in Failures : UpdateMirrorlist(reflector, f)
    \/ \E f \in Failures : SyncRepositories(f)
    \/ \E found \in BOOLEAN, f \in Failures : CheckXcodeTools(found, f)
    \/ \E has_updates, app_store_updates \in BOOLEAN, f \in Failures :
          CheckAvailableUpdates(has_updates, app_store_updates, f)
    \/ \E f \in Failures : UpdateSystem(f)
    \/ \E tool, found \in BOOLEAN, f \in Failures : UpdateSecondary(tool, found, f)
    \/ \E f \in Failures : UpdateHomebrew(f)
    \/ \E found \in BOOLEAN, f \in Failures : CleanupSystem(found, f)
    \/ \E required \in BOOLEAN : CheckRebootRequired(required)
    \/ \E tool \in BOOLEAN, f \in Failures : ConfigureAutoUpdates(tool, f)
    \/ \E status \in HealthStatuses : PostUpdateHealthCheck(status)
    \/ \E f \in Failures : ScheduleReboot(f)
    \/ Exit

SpecUpdate == InitUpdate /\ [][NextUpdate]_vars

-----------------------------------------------------------------------------
(* PerformanceAnalyzer.analyze_bottlenecks and the four checks it calls.    *)
(*                                                                         *)
(* A check result is [has_error, severity, texts]: has_error for the dict  *)
(* {'error': ...} a check returns when psutil fails, otherwise the value   *)
(* of 'severity' and the texts the check writes into its lists and its     *)
(* description.  The remaining items of a result are numbers under keys    *)
(* that contain none of the words 'critical', 'high' and 'medium'.         *)

\* the usage percentages the checks are given: below, between and above the
\* thresholds of the three checks that read a percentage
Percents == {60, 78, 88, 93, 97}

\* the throughputs in Mbps the network check is given
Throughputs == {10, 100, 900}

\* the longest list of disk partitions
MaxPartitions == 2

W_critical == <<"c","r","i","t","i","c","a","l">>
W_high == <<"h","i","g","h">>
W_medium == <<"m","e","d","i","u","m">>
W_normal == <<"n","o","r","m","a","l">>

\* the characters of a severity
Chars(severity) ==
    CASE severity = "critical" -> W_critical
      [] severity = "high" -> W_high
      [] severity = "medium" -> W_medium
      [] severity = "normal" -> W_normal

\* {'error': str(e)}
error_result == [has_error |-> TRUE, severity |-> "None", texts |-> <<>>]

\* _check_cpu_bottleneck, from the average of its samples
_check_cpu_bottleneck(avg_cpu) ==
    [has_error |-> FALSE,
     severity |-> IF avg_cpu > 90 THEN "critical"
                  ELSE IF avg_cpu > 80 THEN "high"
                  ELSE IF avg_cpu > 70 THEN "medium"
                  ELSE "normal",
     texts |-> <<<<"C","P","U"," ","u","s","a","g","e"," ","a","v","e","r","a","g","i","n","g">>>>]

\* _check_memory_bottleneck, from memory.percent and swap.percent
_check_memory_bottleneck(memory_percent, swap_percent) ==
    LET severity == IF memory_percent > 95 THEN "critical"
                    ELSE IF memory_percent > 85 THEN "high"
                    ELSE IF memory_percent > 75 THEN "medium"
                    ELSE "normal"
        issues == IF memory_percent > 95 THEN <<<<"V","i","r","t","u","a","l"," ","m","e","m","o","r","y"," ","c","r","i","t","i","c","a","l","l","y"," ","l","o","w">>>>
                  ELSE IF memory_percent > 85 THEN <<<<"V","i","r","t","u","a","l"," ","m","e","m","o","r","y"," ","u","s","a","g","e"," ","h","i","g","h">>>>
                  ELSE IF memory_percent > 75 THEN <<<<"V","i","r","t","u","a","l"," ","m","e","m","o","r","y"," ","u","s","a","g","e"," ","e","l","e","v","a","t","e","d">>>>
                  ELSE <<>>
    IN  IF swap_percent > 50
        THEN [has_error |-> FALSE,
              severity |-> IF severity = "normal" THEN "medium" ELSE severity,
              texts |-> Append(issues, <<"S","w","a","p"," ","u","s","a","g","e"," ","h","i","g","h">>)]
        ELSE [has_error |-> FALSE, severity |-> severity, texts |-> issues]

\* the loop of _check_disk_bottleneck over the partitions from the i-th on
RECURSIVE disk_loop(_, _, _, _)
disk_loop(usage, i, severity, disk_issues) ==
    IF i > Len(usage)
    THEN [has_error |-> FALSE, severity |-> severity, texts |-> disk_issues]
    ELSE IF usage[i] > 95
    THEN disk_loop(usage, i + 1, "critical",
                   Append(disk_issues, <<"/",":"," ","f","u","l","l"," ","(","c","r","i","t","i","c","a","l",")">>))
    ELSE IF usage[i] > 90
    THEN disk_loop(usage, i + 1,
                   IF severity \notin {"critical"} THEN "high" ELSE severity,
                   Append(disk_issues, <<"/",":"," ","f","u","l","l"," ","(","h","i","g","h",")">>))
    ELSE IF usage[i] > 80
    THEN disk_loop(usage, i + 1,
                   IF severity \notin {"critical", "high"} THEN "medium" ELSE severity,
                   Append(disk_issues, <<"/",":"," ","f","u","l","l"," ","(","m","e","d","i","u","m",")">>))
    ELSE disk_loop(usage, i + 1, severity, disk_issues)

\* _check_disk_bottleneck, from the usage percentage of each partition
_check_disk_bottleneck(usage) == disk_loop(usage, 1, "normal", <<>>)

\* _check_network_bottleneck, from max(mbps_sent, mbps_recv)
_check_network_bottleneck(max_throughput) ==
    [has_error |-> FALSE,
     severity |-> IF max_throughput > 800 THEN "high"
                  ELSE IF max_throughput > 80 THEN "medium"
                  ELSE "normal",
     texts |-> <<>>]

RECURSIVE JoinTexts(_)
JoinTexts(texts) ==
    IF texts = <<>> THEN <<>> ELSE <<" ">> \o Head(texts) \o JoinTexts(Tail(texts))

\* str(v) of a check result, as far as the three words can occur in it
str(v) ==
    IF v.has_error THEN <<"e","r","r","o","r">>
    ELSE <<"s","e","v","e","r","i","t","y",":"," ">> \o Chars(v.severity) \o JoinTexts(v.texts)

BottleneckKeys ==
    <<"cpu_bottleneck", "memory_bottleneck", "disk_bottleneck", "network_bottleneck">>

\* analyze_bottlenecks: issues, the keys of the checks whose severity is
\* 'high' or 'critical'
issues_of(b) ==
    { k \in {BottleneckKeys[i] : i \in 1..4} :
        ~b[k].has_error /\ b[k].severity \in {"high", "critical"} }

\* analyze_bottlenecks: the if/elif chain over issues
assessment_of(b) ==
    IF \E issue \in issues_of(b) : Contains(str(b[issue]), W_critical) THEN "critical"
    ELSE IF \E issue \in issues_of(b) : Contains(str(b[issue]), W_high) THEN "warning"
    ELSE IF \E issue \in issues_of(b) : Contains(str(b[issue]), W_medium)
    THEN "minor_issues"
    ELSE "normal"

InitAnalyzer ==
    /\ HealthIdle
    /\ RepairIdle
    /\ GroupIdle
    /\ ToolkitIdle
    /\ UpdateIdle
    /\ TrackerIdle
    /\ bottlenecks = [overall_assessment |-> "normal"]
    /\ pa_pc = "start"

\* the results the four checks can return
CpuResults == {error_result} \cup { _check_cpu_bottleneck(p) : p \in Percents }

MemoryResults ==
    {error_result} \cup
    { _check_memory_bottleneck(p, swap) : p \in Percents, swap \in {0, 60} }

DiskResults ==
    {error_result} \cup
    UNION { { _check_disk_bottleneck(usage) : usage \in [1..n -> Percents] } :
            n \in 0..MaxPartitions }

NetworkResults == {error_result} \cup { _check_network_bottleneck(m) : m \in Throughputs }

\* analyze_bottlenecks
AnalyzeBottlenecks(cpu, memory, disk, network) ==
    /\ pa_pc = "start"
    /\ LET checks == [cpu_bottleneck |-> cpu, memory_bottleneck |-> memory,
                      disk_bottleneck |-> disk, network_bottleneck |-> network,
                      overall_assessment |-> "normal"]
       IN  bottlenecks' = [checks EXCEPT !.overall_assessment = assessment_of(checks)]
    /\ pa_pc' = "assessed"
    /\ UNCHANGED <<hvars, rvars, gvars, tvars, uvars, mvars>>

NextAnalyzer ==
    \E cpu \in CpuResults, memory \in MemoryResults, disk \in DiskResults,
       network \in NetworkResults :
       AnalyzeBottlenecks(cpu, memory, disk, network)

SpecAnalyzer == InitAnalyzer /\ [][NextAnalyzer]_vars

-----------------------------------------------------------------------------
(* utils/progress_tracker.py: MultiStageProgressTracker *)

MaxStages == 2
MaxCalls == 6

(* the stages of the demo, lines 219-223 *)
DemoStages ==
    << [name |-> "Initialize", steps |-> 3],
       [name |-> "Process", steps |-> 7],
       [name |-> "Finalize", steps |-> 2] >>

(* MultiStageProgressTracker.__init__, lines 112-116 *)
InitTracker ==
    /\ HealthIdle
    /\ RepairIdle
    /\ GroupIdle
    /\ ToolkitIdle
    /\ UpdateIdle
    /\ AnalyzerIdle
    /\ \E n \in 0..MaxStages : stages = SubSeq(DemoStages, 1, n)
    /\ current_stage_index = 0
    /\ current_stage_tracker = [stage |-> -1]
    /\ finishes = <<>>
    /\ ms_calls = <<>>
    /\ ms_pc = "running"

(* "if self.current_stage_tracker:", lines 145, 150 and 158: a            *)
(* ProgressTracker defines neither __bool__ nor __len__, so every tracker  *)
(* is true and only None is false                                          *)
tracker_is_set(tracker) == tracker.stage # -1

(* self.stages[index]: a list index of 0 .. len-1 is in range; the indexes *)
(* of the calls are never negative                                         *)
index_in_range(index) == index < Len(stages)

(* ProgressTracker.__init__, lines 37-43, for the stage at index *)
ProgressTracker(index) ==
    [stage |-> index, total_steps |-> stages[index + 1].steps, current_step |-> 0]

Called(op, stage_index) == Append(ms_calls, [op |-> op, stage_index |-> stage_index])

CanCall == ms_pc = "running" /\ Len(ms_calls) < MaxCalls

(* start_stage, lines 118-141; stage_index is -1 for None *)
start_stage(stage_index) ==
    /\ CanCall
    /\ LET index == IF stage_index # -1 THEN stage_index ELSE current_stage_index IN
       /\ current_stage_index' = index
       /\ current_stage_tracker' =
            IF index >= Len(stages)
            THEN current_stage_tracker
            ELSE ProgressTracker(index)
    /\ ms_calls' = Called("start_stage", stage_index)
    /\ UNCHANGED <<stages, finishes, ms_pc>>
    /\ UNCHANGED <<hvars, rvars, gvars, tvars, uvars, avars>>

(* update_stage, lines 143-146, with ProgressTracker.update, lines 56-72 *)
update_stage ==
    /\ CanCall
    /\ current_stage_tracker' =
         IF tracker_is_set(current_stage_tracker)
         THEN [current_stage_tracker EXCEPT !.current_step = @ + 1]
         ELSE current_stage_tracker
    /\ ms_calls' = Called("update_stage", -1)
    /\ UNCHANGED <<stages, current_stage_index, finishes, ms_pc>>
    /\ UNCHANGED <<hvars, rvars, gvars, tvars, uvars, avars>>

(* the body of finish_stage, lines 150-154: the stage name is read at the  *)
(* current index before the tracker is finished, and the index advances    *)
(* whether or not there is a tracker                                       *)
finish_stage_raises ==
    tracker_is_set(current_stage_tracker) /\ ~index_in_range(current_stage_index)

finish_stage_body ==
    IF finish_stage_raises
    THEN /\ ms_pc' = "IndexError"
         /\ UNCHANGED <<current_stage_index, finishes>>
    ELSE /\ finishes' =
              IF tracker_is_set(current_stage_tracker)
              THEN Append(finishes,
                          [tracker |-> current_stage_tracker.stage,
                           stage_name |-> stages[current_stage_index + 1].name])
              ELSE finishes
         /\ current_stage_index' = current_stage_index + 1
         /\ UNCHANGED ms_pc

(* finish_stage, lines 148-154 *)
finish_stage ==
    /\ CanCall
    /\ finish_stage_body
    /\ ms_calls' = Called("finish_stage", -1)
    /\ UNCHANGED <<stages, current_stage_tracker>>
    /\ UNCHANGED <<hvars, rvars, gvars, tvars, uvars, avars>>

(* finish_all, lines 156-162 *)
finish_all ==
    /\ CanCall
    /\ IF tracker_is_set(current_stage_tracker)
       THEN IF finish_stage_raises
            THEN finish_stage_body
            ELSE /\ finishes' =
                      Append(finishes,
                             [tracker |-> current_stage_tracker.stage,
                              stage_name |-> stages[current_stage_index + 1].name])
                 /\ current_stage_index' = current_stage_index + 1
                 /\ ms_pc' = "finished"
       ELSE /\ ms_pc' = "finished"
            /\ UNCHANGED <<current_stage_index, finishes>>
    /\ ms_calls' = Called("finish_all", -1)
    /\ UNCHANGED <<stages, current_stage_tracker>>
    /\ UNCHANGED <<hvars, rvars, gvars, tvars, uvars, avars>>

NextTracker ==
    \/ \E stage_index \in -1..Len(stages) : start_stage(stage_index)
    \/ update_stage
    \/ finish_stage
    \/ finish_all

SpecTracker == InitTracker /\ [][NextTracker]_vars

-----------------------------------------------------------------------------
(* Properties of the aggregation *)

\* the severity order ok < warning < error < critical; any other label is 0
SeverityOf(label) ==
    CASE label = "critical" -> 3
      [] label = "error"    -> 2
      [] label = "warning"  -> 1
      [] OTHER              -> 0

LabelOfSeverity(n) ==
    CASE n = 3 -> "critical"
      [] n = 2 -> "error"
      [] n = 1 -> "warning"
      [] OTHER -> "ok"

MaxOf(S) == CHOOSE m \in S : \A x \in S : x <= m

IsLabeled(node) == node.kind = "dict" /\ HasKey(node, "status")

RECURSIVE LabelsIn(_)
\* the labels of all labeled nodes of a value, at any depth
LabelsIn(node) ==
    (IF IsLabeled(node) THEN {GetItem(node, "status").val} ELSE {})
    \cup UNION { LabelsIn(node.items[i][2]) : i \in 1..Len(node.items) }

RECURSIVE OutermostLabelsIn(_)
\* the labels of the labeled nodes of a value that lie in no other labeled node
OutermostLabelsIn(node) ==
    IF IsLabeled(node) THEN {GetItem(node, "status").val}
    ELSE UNION { OutermostLabelsIn(node.items[i][2]) : i \in 1..Len(node.items) }

RECURSIVE HasNestedLabel(_)
\* some labeled node of the value is not a leaf: it holds a labeled node
HasNestedLabel(node) ==
    \E i \in 1..Len(node.items) :
        \/ HasNestedLabel(node.items[i][2])
        \/ IsLabeled(node) /\ node.items[i][1] # "status"
                           /\ LabelsIn(node.items[i][2]) # {}

\* the positions of the root keys that are checks
CheckedRoots(res) ==
    { i \in 1..Len(res.items) :
        res.items[i][1] \notin {"timestamp", "system_info", "overall_status"} }

RootLabels(res) == UNION { LabelsIn(res.items[i][2]) : i \in CheckedRoots(res) }
OutermostRootLabels(res) ==
    UNION { OutermostLabelsIn(res.items[i][2]) : i \in CheckedRoots(res) }

WorstOf(labels) == LabelOfSeverity(MaxOf({SeverityOf(l) : l \in labels} \cup {0}))

RECURSIVE Reorderings(_)
RECURSIVE ReorderedChildren(_, _)
\* the sequences of the items i.. of items, each value replaced by one of its
\* reorderings
ReorderedChildren(items, i) ==
    IF i > Len(items) THEN {<<>>}
    ELSE { << <<items[i][1], c>> >> \o rest :
             c \in Reorderings(items[i][2]), rest \in ReorderedChildren(items, i + 1) }

\* the values that differ from node only in the order of sibling keys and of
\* list elements, at every depth
Reorderings(node) ==
    LET n == Len(node.items)
    IN IF n = 0 THEN {node}
       ELSE { [node EXCEPT !.items = [i \in 1..n |-> f[p[i]]]] :
                p \in Permutations(1..n), f \in ReorderedChildren(node.items, 1) }

\* C1: on a tree whose labeled nodes are leaves, the result is the label of
\* the maximum severity among the labeled nodes under the root keys that are
\* not ignored (ok < warning < error < critical), and on any tree the result
\* is the same for every reordering of sibling keys and list elements.
C1_MaxSeverity ==
    hc_pc = "done" =>
        /\ ~HasNestedLabel(results) => overall_status = WorstOf(RootLabels(results))
        /\ \A r \in Reorderings(results) : _calculate_overall_status(r) = overall_status

\* two labeled siblings below one key, the worse one second, decide the result
C1_Witness ==
    /\ hc_pc = "done"
    /\ ~HasNestedLabel(results)
    /\ HasKey(results, "services")
    /\ LabelsIn(GetItem(results, "services")) = {"warning", "critical"}
    /\ Len(GetItem(results, "services").items) = 2
    /\ LabelsIn(GetItem(results, "services").items[1][2]) = {"warning"}
    /\ overall_status = "critical"

RECURSIVE PruneLabeled(_)
\* the value with every labeled node cut down to its 'status' field
PruneLabeled(node) ==
    IF IsLabeled(node) THEN Leaf(GetItem(node, "status").val)
    ELSE [node EXCEPT !.items =
            [i \in 1..Len(node.items) |-> <<node.items[i][1], PruneLabeled(node.items[i][2])>>]]

PruneResults(res) ==
    [res EXCEPT !.items =
        [i \in 1..Len(res.items) |-> <<res.items[i][1], PruneLabeled(res.items[i][2])>>]]

\* C2: a mapping with its own 'status' field is a leaf: the result is the
\* worst label among the outermost labeled nodes, and it is the result for
\* the tree in which the other fields of every labeled node are removed.
C2_StatusNodeIsLeaf ==
    hc_pc = "done" =>
        /\ overall_status = WorstOf(OutermostRootLabels(results))
        /\ _calculate_overall_status(PruneResults(results)) = overall_status

\* services is 'ok' and holds a 'critical' child; the result is 'ok'
C2_Witness ==
    /\ hc_pc = "done"
    /\ HasKey(results, "services")
    /\ IsLabeled(GetItem(results, "services"))
    /\ GetItem(GetItem(results, "services"), "status").val = "ok"
    /\ "critical" \in LabelsIn(GetItem(results, "services"))
    /\ overall_status = "ok"

RecognizedLabels == {"ok", "warning", "error", "critical"}
\* labels that are no key of status_priorities: the statuses of
\* check_services, and the empty string
UnrecognizedLabels == {"running", "stopped", "unknown", ""}

RECURSIVE WithExtraNode(_, _)
\* the values that are node with the value extra added as one more node:
\* under a new key of one of its dicts, or as a new element of one of its lists
WithExtraNode(node, extra) ==
    (IF node.kind = "dict" THEN {SetItem(node, "extra_check", extra)}
     ELSE IF node.kind = "list"
          THEN {[node EXCEPT !.items = Append(node.items, <<"", extra>>)]}
          ELSE {})
    \cup UNION { { [node EXCEPT !.items[i] = <<node.items[i][1], c>>] :
                     c \in WithExtraNode(node.items[i][2], extra) } :
                 i \in 1..Len(node.items) }

\* C3: a label outside {ok, warning, error, critical} counts as severity 0:
\* adding a node with such a label anywhere in the tree leaves the result
\* unchanged, and a tree with no recognized label at all gives 'ok'.
C3_UnknownLabelIsZero ==
    hc_pc = "done" =>
        /\ \A u \in UnrecognizedLabels :
             \A t \in WithExtraNode(results, Leaf(u)) :
                _calculate_overall_status(t) = overall_status
        /\ LabelsIn(results) \cap RecognizedLabels = {} => overall_status = "ok"

\* a check labeled 'running' next to one labeled 'warning': the result is
\* 'warning'
C3_Witness ==
    /\ hc_pc = "done"
    /\ OutermostRootLabels(results) = {"running", "warning"}
    /\ overall_status = "warning"

\* the results without the root keys that are ignored
WithoutIgnoredRoots(res) ==
    [res EXCEPT !.items = SelectSeq(res.items,
        LAMBDA kv : kv[1] \notin {"timestamp", "system_info", "overall_status"})]

RECURSIVE RenameKeys(_)
\* the value with every key named like an ignored root key renamed
RenameKeys(node) ==
    [node EXCEPT !.items =
        [i \in 1..Len(node.items) |->
            << IF node.items[i][1] \in {"timestamp", "system_info", "overall_status"}
               THEN "renamed_" \o node.items[i][1] ELSE node.items[i][1],
               RenameKeys(node.items[i][2]) >>]]

\* the results with the nested keys (not the root keys) renamed
RenameNestedKeys(res) ==
    [res EXCEPT !.items =
        [i \in 1..Len(res.items) |-> <<res.items[i][1], RenameKeys(res.items[i][2])>>]]

\* C4: timestamp, system_info and overall_status are skipped at the root
\* only: the result is that of the tree without these root keys, and it is
\* that of the tree in which the nested keys of these names have other names.
C4_IgnoredAtRootOnly ==
    hc_pc = "done" =>
        /\ _calculate_overall_status(WithoutIgnoredRoots(results)) = overall_status
        /\ _calculate_overall_status(RenameNestedKeys(results)) = overall_status

\* a 'critical' status under the root key system_info, an 'error' status
\* under the nested key system_info of services: the result is 'error'
C4_Witness ==
    /\ hc_pc = "done"
    /\ HasKey(results, "system_info")
    /\ LabelsIn(GetItem(results, "system_info")) = {"critical"}
    /\ HasKey(results, "services")
    /\ ~IsLabeled(GetItem(results, "services"))
    /\ HasKey(GetItem(results, "services"), "system_info")
    /\ LabelsIn(GetItem(results, "services")) = {"error"}
    /\ overall_status = "error"

-----------------------------------------------------------------------------
(* Properties of the repair pass *)

all_fixes ==
    {flush_dns_cache, reset_dns_servers, restart_dns_service, release_renew_ip,
     reset_network_adapter, reset_tcp_ip_stack, disable_enable_adapter,
     reset_winsock, restart_network_services, reset_firewall}

\* the action the latest result belongs to
LatestFix == CHOOSE fix \in all_fixes : fix.name = fix_result.name

\* _attempt_fix has returned at least once and no attempt is under way
AttemptReturned ==
    pc \in {"attempt", "returned"} /\ fix_results.fixes_attempted # <<>>

\* C5: in a pass with dry_run = True, whatever the diagnosis, the platform,
\* the caller and the action, CommandRunner.run_command is never called and
\* input() is never called: the pass is never at the prompt nor in the loop
\* over commands, and no call of either has been counted.
C5_DryRunNoSideEffects ==
    dry_run =>
        /\ ~executor_invoked
        /\ ~prompt_invoked
        /\ pc \notin {"prompt", "exec"}
        /\ run_command_calls = <<>>
        /\ input_calls = 0

\* a dry run has returned after attempting a destructive action that has
\* commands for the platform
C5_Witness ==
    /\ dry_run
    /\ pc = "returned"
    /\ \E i \in 1..Len(fix_results.fixes_attempted) :
          /\ is_destructive(fix_results.fixes_attempted[i].name)
          /\ fix_results.fixes_attempted[i].success

\* C6: when the caller asks for auto_approve_destructive and dry_run is
\* false, on each of the three ways into the pass, no confirmation prompt is
\* issued: the pass is never at the prompt and input() is never called.
C6_AutoApproveSkipsPrompt ==
    (requested_auto_approve /\ ~dry_run) => (pc # "prompt" /\ ~prompt_invoked)

\* the answers C7 is about, as typed
DeclineAnswers == { <<>>, <<"n">>, <<"n", "o">> }

\* C7: at the prompt of a destructive action, with dry_run and
\* auto_approve_destructive false, when input() returns '', 'n' or 'no',
\* _attempt_fix returns a result of that action with user_declined true and
\* success false, and no command of the action has been or is then executed.
C7_DeclineReturnsDeclined ==
    [][\A raw \in DeclineAnswers :
          (/\ ReadInput(raw)
           /\ is_destructive(current_fix.name)
           /\ ~dry_run
           /\ ~fix_results.auto_approve_destructive)
          => /\ pc' \in {"attempt", "returned"}
             /\ fix_result'.name = current_fix.name
             /\ fix_result'.user_declined
             /\ ~fix_result'.success
             /\ ~fix_result'.skipped
             /\ run_command_calls' = <<>>
             /\ executor_invoked' = executor_invoked
             /\ Len(fix_results'.fixes_attempted) = Len(fix_results.fixes_attempted) + 1]_vars

\* a destructive action has returned declined with no command executed
C7_Witness ==
    /\ AttemptReturned
    /\ ~dry_run
    /\ ~fix_results.auto_approve_destructive
    /\ is_destructive(fix_result.name)
    /\ fix_result.user_declined
    /\ ~fix_result.success
    /\ run_command_calls = <<>>

\* the answers C8 is about, as typed
SkipAnswers == { <<"s">>, <<"s", "k", "i", "p">> }

\* C8: at the prompt of a destructive action, with dry_run and
\* auto_approve_destructive false, when input() returns 's' or 'skip',
\* _attempt_fix returns a result of that action with skipped true and success
\* true, no command of the action has been or is then executed, and the pass
\* appends the action to fixes_successful and not to fixes_failed.
C8_SkipReturnsSuccess ==
    [][\A raw \in SkipAnswers :
          (/\ ReadInput(raw)
           /\ is_destructive(current_fix.name)
           /\ ~dry_run
           /\ ~fix_results.auto_approve_destructive)
          => /\ pc' \in {"attempt", "returned"}
             /\ fix_result'.name = current_fix.name
             /\ fix_result'.skipped
             /\ fix_result'.success
             /\ ~fix_result'.user_declined
             /\ run_command_calls' = <<>>
             /\ executor_invoked' = executor_invoked
             /\ fix_results'.fixes_successful =
                    Append(fix_results.fixes_successful, current_fix.name)
             /\ fix_results'.fixes_failed = fix_results.fixes_failed]_vars

\* a destructive action has returned skipped and is the last of
\* fixes_successful
C8_Witness ==
    /\ AttemptReturned
    /\ ~dry_run
    /\ ~fix_results.auto_approve_destructive
    /\ is_destructive(fix_result.name)
    /\ fix_result.skipped
    /\ fix_result.success
    /\ run_command_calls = <<>>
    /\ fix_results.fixes_successful # <<>>
    /\ fix_results.fixes_successful[Len(fix_results.fixes_successful)] = fix_result.name

\* what the user may type, by the token it stands for once trimmed and
\* lower-cased
ApproveInputs == { <<"y">>, <<"Y">>, <<" ", "y", "e", "s">>, <<"Y", "E", "S", " ">> }
DeclineInputs == { <<"n">>, <<"n", "o">>, <<"N", "o">>, <<>>, <<" ", "\t">> }
SkipInputs == { <<"s">>, <<"S", "k", "i", "p">>, <<"\t", "s", "k", "i", "p", " ">> }
InvalidInputs ==
    { <<"y", "y">>, <<"o", "k">>, <<"y", " ", "e", "s">>, <<"n", "o", "p", "e">> }
ValidInputs == ApproveInputs \cup DeclineInputs \cup SkipInputs

\* one turn of the prompt loop, by the kind of the input read
C9_Turn ==
    /\ \A raw \in InvalidInputs :
          ReadInput(raw) =>
             /\ pc' = "prompt"
             /\ input_calls' = count_call(input_calls)
             /\ UNCHANGED <<fix_results, fix_result, group, fix_index, cmd_index,
                            all_outputs, run_command_calls, executor_invoked>>
    /\ \A raw \in ApproveInputs :
          ReadInput(raw) =>
             /\ pc' = "exec"
             /\ UNCHANGED <<fix_results, fix_result>>
    /\ \A raw \in DeclineInputs :
          ReadInput(raw) =>
             /\ pc' \in {"attempt", "returned"}
             /\ fix_result'.user_declined /\ ~fix_result'.skipped
    /\ \A raw \in SkipInputs :
          ReadInput(raw) =>
             /\ pc' \in {"attempt", "returned"}
             /\ fix_result'.skipped /\ ~fix_result'.user_declined

\* the user enters a valid token
ReadValidInput == \E raw \in ValidInputs : ReadInput(raw)

\* the pass with a user who, asked again and again, eventually enters a valid
\* token
FairSpec == Spec /\ WF_vars(ReadValidInput)

\* C9: the prompt of a destructive action has an outcome only on y/yes,
\* n/no/empty or s/skip, compared after strip() and lower(): on any other
\* input nothing is executed, nothing is returned and input() is called
\* again; on a valid token the loop ends in that turn (approved, declined or
\* skipped); and with a user who eventually enters a valid token the pass
\* eventually leaves the prompt.
C9_PromptLoop ==
    /\ [][C9_Turn]_vars
    /\ (pc = "prompt") ~> (pc # "prompt")

\* the prompt is being issued again after an input that is no valid token
C9_Witness ==
    /\ pc = "prompt"
    /\ input_calls >= 2
    /\ ~executor_invoked
    /\ fix_result = new_fix_result(current_fix)

\* C10: when an attempt without dry_run of an action that has commands for
\* the platform, and is not destructive or was approved, has returned and no
\* command exited with a code other than 0 or raised, every command of the
\* action has been executed once, in the order of the list, and the result
\* has success true, an empty error and the outputs of the commands in that
\* order as its output.
C10_AllZeroSucceeds ==
    LET commands == commands_of(LatestFix)
    IN  (/\ AttemptReturned
         /\ ~dry_run
         /\ commands # <<>>
         /\ ~fix_result.skipped
         /\ ~fix_result.user_declined
         /\ fix_result.error # input_error
         /\ \A i \in 1..Len(run_command_calls) : run_command_calls[i].outcome = "zero")
        => /\ fix_result.success
           /\ fix_result.error = ""
           /\ Len(run_command_calls) = Len(commands)
           /\ \A i \in 1..Len(commands) : run_command_calls[i].text = commands[i].text
           /\ fix_result.output.kind = "joined"
           /\ fix_result.output.parts =
                 [i \in 1..Len(commands) |-> <<commands[i].text, Stdout(commands[i])>>]

\* the commands whose first token is a delay utility of the action tables
IsDelayUtility(cmd) == cmd.prog \in {P_timeout, P_sleep}

\* the i-th call of run_command of the latest attempt ended with an exit code
\* other than 0
ExitedNonzero(i) == run_command_calls[i].outcome = "nonzero"

\* C11: when a command of an action that is no delay utility exits with a
\* code other than 0, it is the last command of the action that is executed,
\* the attempt has returned, and its result has success false, an empty
\* output and the stderr of that command in its error.
C11_NonzeroStopsAction ==
    LET commands == commands_of(LatestFix)
    IN  \A i \in 1..Len(run_command_calls) :
           (ExitedNonzero(i) /\ ~IsDelayUtility(commands[i]))
           => /\ i = Len(run_command_calls)
              /\ pc \in {"attempt", "returned"}
              /\ ~fix_result.success
              /\ fix_result.output = NoOutput
              /\ fix_result.error = "Command failed: " \o Stderr(commands[i])

\* an attempt has returned after a failing command that was not the last of
\* the action
C11_Witness ==
    LET commands == commands_of(LatestFix)
        n == Len(run_command_calls)
    IN  /\ AttemptReturned
        /\ n >= 1
        /\ n < Len(commands)
        /\ ExitedNonzero(n)
        /\ ~IsDelayUtility(commands[n])
        /\ ~fix_result.success

\* C12: when a command whose first token is a delay utility (timeout, sleep)
\* exits with a code other than 0, the action is not ended by it: the pass
\* is about to run the next command of the action, or has run it, or the
\* delay was the last command, and the exit of the delay is not the error of
\* the result.
C12_DelayNonzeroContinues ==
    LET commands == commands_of(LatestFix)
    IN  \A i \in 1..Len(run_command_calls) :
           (ExitedNonzero(i) /\ IsDelayUtility(commands[i]))
           => /\ \/ pc = "exec"
                 \/ i < Len(run_command_calls)
                 \/ i = Len(commands)
              /\ fix_result.error # "Command failed: " \o Stderr(commands[i])

\* the actions of the four groups as the tables list them
GroupList(g) ==
    CASE g = 1 -> dns_fixes
      [] g = 2 -> connectivity_fixes
      [] g = 3 -> interface_fixes
      [] g = 4 -> windows_fixes

\* how often an action is in fixes_attempted
TimesAttempted(name) ==
    Cardinality({ i \in 1..Len(fix_results.fixes_attempted) :
                    fix_results.fixes_attempted[i].name = name })

\* run_automated_fixes has returned from a diagnosis it attempts fixes for
PassReturned ==
    /\ pc = "returned"
    /\ diagnostic_results.overall_status \in {"minor_issues", "major_issues"}

\* C13: when run_automated_fixes returns, whatever the outcomes of the
\* single actions were (failed command, exception, decline, skip, success),
\* every action of every triggered group is in fixes_attempted exactly once
\* and no action of another group is in it.
C13_AllActionsAttempted ==
    PassReturned =>
        /\ \A g \in 1..4 : \A i \in 1..Len(GroupList(g)) :
              TimesAttempted(GroupList(g)[i].name) = IF group_triggered(g) THEN 1 ELSE 0
        /\ \A i \in 1..Len(fix_results.fixes_attempted) :
              \E g \in 1..4 : \E j \in 1..Len(GroupList(g)) :
                 fix_results.fixes_attempted[i].name = GroupList(g)[j].name

\* a pass over two groups or more has returned although its first action
\* failed and a later one succeeded
C13_Witness ==
    /\ PassReturned
    /\ Len(fix_results.fixes_attempted) >= 4
    /\ ~fix_results.fixes_attempted[1].success
    /\ fix_results.fixes_successful # <<>>
    /\ fix_result.user_declined

\* a step in which the body of the try of _attempt_fix raises: the command
\* executor times out or finds no executable, the call with shell=True is
\* refused, or input() fails
ExceptionRaised ==
    \/ RunCommand("timeout_expired")
    \/ RunCommand("not_found")
    \/ CallShellCommand
    \/ InputRaises

\* the texts of the exceptions a step at the current command may raise
ExceptionTexts ==
    LET cmd == commands_of(current_fix)[cmd_index]
    IN  {timeout_error(cmd), not_found_error(cmd), shell_error, input_error}

\* the current action is the last one of the last triggered group
LastActionOfPass ==
    /\ fix_index = Len(GroupList(group))
    /\ \A h \in (group + 1)..4 : ~group_triggered(h)

\* C15: an exception raised while an action is executed never leaves
\* run_automated_fixes: the step that raises it returns from _attempt_fix a
\* result of that action with success false and the text of the exception as
\* its error, the pass records the attempt as failed, and it goes on with
\* the next action unless the action was the last one of the pass.
C15_ExceptionsCaught ==
    /\ [](pc # "crashed")
    /\ [][ExceptionRaised =>
            /\ pc' \in {"attempt", "returned"}
            /\ fix_result'.name = current_fix.name
            /\ ~fix_result'.success
            /\ fix_result'.error \in ExceptionTexts
            /\ fix_results'.fixes_attempted =
                  Append(fix_results.fixes_attempted,
                         [name |-> current_fix.name, priority |-> current_fix.priority,
                          success |-> FALSE])
            /\ fix_results'.fixes_failed = Append(fix_results.fixes_failed, current_fix.name)
            /\ (pc' = "returned") <=> LastActionOfPass]_vars

\* the pass is about to attempt the next action after a command of the
\* latest one timed out
C15_Witness ==
    /\ pc = "attempt"
    /\ fix_results.fixes_attempted # <<>>
    /\ ~fix_result.success
    /\ \E i \in 1..Len(commands_of(LatestFix)) :
          fix_result.error = timeout_error(commands_of(LatestFix)[i])

\* the tables of the action give no command under the name of the platform
NoCommandsForPlatform(fix) ==
    \/ os_type \notin DOMAIN fix.commands
    \/ fix.commands[os_type] = <<>>

\* C16: with dry_run or without, the attempt of an action whose table has no
\* commands for the platform returns at once a result with success false and
\* an error that names the platform, without a prompt and without a command,
\* and the pass goes on with the next action.
C16_NoCommandsIsError ==
    [][(BeginAttempt /\ NoCommandsForPlatform(current_fix)) =>
          /\ pc' \in {"attempt", "returned"}
          /\ fix_result'.name = current_fix.name
          /\ ~fix_result'.success
          /\ fix_result'.error = "No commands defined for " \o os_type
          /\ fix_result'.output = NoOutput
          /\ input_calls' = 0
          /\ run_command_calls' = <<>>
          /\ prompt_invoked' = prompt_invoked
          /\ executor_invoked' = executor_invoked
          /\ Len(fix_results'.fixes_attempted) = Len(fix_results.fixes_attempted) + 1
          /\ (pc' = "returned") <=> LastActionOfPass]_vars

\* without dry_run, a destructive action without commands for the platform
\* has returned its error and neither input() nor run_command was called
C16_Witness ==
    /\ AttemptReturned
    /\ ~dry_run
    /\ is_destructive(fix_result.name)
    /\ NoCommandsForPlatform(LatestFix)
    /\ fix_result.error = "No commands defined for " \o os_type
    /\ ~prompt_invoked
    /\ ~executor_invoked

\* the four final states of a result
SuccessWithOutput(fr) ==
    /\ fr.success /\ ~fr.skipped /\ ~fr.user_declined
    /\ fr.error = "" /\ fr.output.kind \in {"joined", "dry_run"}
ErrorWithNoOutput(fr) ==
    /\ ~fr.success /\ ~fr.skipped /\ ~fr.user_declined
    /\ fr.error # "" /\ fr.output = NoOutput
Skipped(fr) ==
    /\ fr.skipped /\ ~fr.user_declined /\ fr.success /\ fr.error = ""
UserDeclined(fr) ==
    /\ fr.user_declined /\ ~fr.skipped /\ ~fr.success /\ fr.error # ""

FinalStatesOf(fr) ==
    { k \in {"success", "error", "skipped", "declined"} :
        \/ k = "success" /\ SuccessWithOutput(fr)
        \/ k = "error" /\ ErrorWithNoOutput(fr)
        \/ k = "skipped" /\ Skipped(fr)
        \/ k = "declined" /\ UserDeclined(fr) }

\* C17: every result _attempt_fix returns is in exactly one of the final
\* states success with output, error with no output, skipped and declined:
\* skipped and user_declined are never both true, success is true for a skip
\* and false for a decline or a failure, and success is true exactly when
\* error is empty.
C17_OneFinalState ==
    AttemptReturned =>
        /\ Cardinality(FinalStatesOf(fix_result)) = 1
        /\ ~(fix_result.skipped /\ fix_result.user_declined)
        /\ fix_result.skipped => fix_result.success
        /\ fix_result.user_declined => ~fix_result.success
        /\ fix_result.success <=> fix_result.error = ""

\* a declined result has been returned in a pass that has a successful and
\* a failed result as well
C17_Witness ==
    /\ AttemptReturned
    /\ UserDeclined(fix_result)
    /\ fix_results.fixes_successful # <<>>
    /\ Len(fix_results.fixes_failed) >= 2

\* the names of the destructive-operations table
DestructiveNames ==
    {"reset_firewall", "reset_tcp_ip_stack", "disable_enable_adapter",
     "reset_network_adapter"}

\* C18: in a dry run, the result of every action that has a command for the
\* platform has success true, no error and an output that states the number
\* of the action's commands for the platform, and that output carries the
\* impact of the action exactly when the action's name is in the
\* destructive-operations table.
C18_DryRunOutput ==
    (AttemptReturned /\ dry_run /\ ~NoCommandsForPlatform(LatestFix)) =>
        /\ fix_result.success
        /\ fix_result.error = ""
        /\ fix_result.output.kind = "dry_run"
        /\ fix_result.output.count = Len(LatestFix.commands[os_type])
        /\ fix_result.output.impact # "" <=> fix_result.name \in DestructiveNames
        /\ fix_result.name \in DestructiveNames =>
              fix_result.output.impact = destructive_operations[fix_result.name]

\* a dry run has returned the preview of a destructive action, with its
\* impact, after the preview of an action that is not destructive
C18_Witness ==
    /\ AttemptReturned
    /\ dry_run
    /\ fix_result.name \in DestructiveNames
    /\ fix_result.output.kind = "dry_run"
    /\ fix_result.output.impact # ""
    /\ fix_result.output.count >= 2
    /\ \E i \in 1..Len(fix_results.fixes_attempted) :
          fix_results.fixes_attempted[i].name \notin DestructiveNames

\* the action of the tables with a given name
FixNamed(name) == CHOOSE fix \in all_fixes : fix.name = name

\* an action that declares requires_admin is among those attempted so far
AdminActionAttempted ==
    \E i \in 1..Len(fix_results.fixes_attempted) :
       FixNamed(fix_results.fixes_attempted[i].name).requires_admin

\* C19: requires_admin of fix_results is false when the pass starts, is true
\* from then on exactly when an action that declares requires_admin has been
\* attempted, so also when run_automated_fixes returns, and is never set
\* back to false.
C19_RequiresAdmin ==
    /\ [](pc = "start" => ~fix_results.requires_admin)
    /\ [](fix_results.requires_admin <=> AdminActionAttempted)
    /\ [][fix_results.requires_admin => fix_results'.requires_admin]_vars

\* a pass has returned with requires_admin true although every action of it
\* failed
C19_Witness ==
    /\ PassReturned
    /\ fix_results.requires_admin
    /\ fix_results.fixes_successful = <<>>
    /\ Len(fix_results.fixes_failed) >= 2

\* how often a name is in a list of names
TimesNamed(name, names) == Cardinality({ i \in 1..Len(names) : names[i] = name })

\* C23: at every point of a repair pass, and so after it, each result in
\* fixes_attempted has its name exactly once in fixes_successful and not in
\* fixes_failed when its success is true, and exactly once in fixes_failed
\* and not in fixes_successful when it is false; the lengths add up; the
\* latest result, when declined, is in fixes_failed and, when skipped, in
\* fixes_successful.
C23_SuccessfulFailedPartition ==
    /\ \A i \in 1..Len(fix_results.fixes_attempted) :
          LET r == fix_results.fixes_attempted[i]
          IN  /\ TimesNamed(r.name, fix_results.fixes_successful) = IF r.success THEN 1 ELSE 0
              /\ TimesNamed(r.name, fix_results.fixes_failed) = IF r.success THEN 0 ELSE 1
    /\ Len(fix_results.fixes_attempted) =
          Len(fix_results.fixes_successful) + Len(fix_results.fixes_failed)
    /\ AttemptReturned =>
          /\ fix_result.user_declined =>
                TimesNamed(fix_result.name, fix_results.fixes_failed) = 1
          /\ fix_result.skipped =>
                TimesNamed(fix_result.name, fix_results.fixes_successful) = 1

\* a pass has returned with successful and failed results, the latest a skip
C23_Witness ==
    /\ PassReturned
    /\ fix_result.skipped
    /\ Len(fix_results.fixes_successful) >= 2
    /\ Len(fix_results.fixes_failed) >= 2

\* the names in a list of names
NamesIn(names) == { names[i] : i \in 1..Len(names) }

TablePlatforms ==
    UNION { DOMAIN fix.commands : fix \in all_fixes \ {reset_winsock, restart_network_services, reset_firewall} }

\* C25: on each of the three platforms the tables name (Windows, Linux and
\* macOS, where OSDetector reports windows, linux and darwin), no attempt of
\* a DNS, connectivity or interface action returns 'No commands defined':
\* os_type is a key of the action's table.  On macOS os_type is 'darwin'
\* and the tables are keyed 'macos', which refutes the statement.
C25_PlatformSelectsCommands ==
    /\ TablePlatforms = {"windows", "linux", "macos"}
    /\ (AttemptReturned /\ LatestFix \notin {reset_winsock, restart_network_services, reset_firewall}) =>
          /\ os_type \in DOMAIN LatestFix.commands
          /\ fix_result.error # "No commands defined for " \o os_type

\* the group whose table holds the action of a given name
GroupOf(name) ==
    CHOOSE g \in 1..4 : \E i \in 1..Len(GroupList(g)) : GroupList(g)[i].name = name

\* C26: an action is attempted only when overall_status is minor_issues or
\* major_issues and the trigger of its group holds (DNS: failed_resolutions
\* > 0, connectivity: failed_pings > 0, interface: an 'error' key, platform:
\* Windows), and the groups are attempted in the order DNS, connectivity,
\* interface, platform; with any other overall_status no action is
\* attempted, input() and run_command are never called and the pass is never
\* in an attempt.
C26_GroupsGatedAndOrdered ==
    LET attempted == fix_results.fixes_attempted
        status == diagnostic_results.overall_status
    IN  /\ \A i \in 1..Len(attempted) :
              /\ status \in {"minor_issues", "major_issues"}
              /\ CASE GroupOf(attempted[i].name) = 1 ->
                        diagnostic_results.failed_resolutions > 0
                   [] GroupOf(attempted[i].name) = 2 ->
                        diagnostic_results.failed_pings > 0
                   [] GroupOf(attempted[i].name) = 3 ->
                        diagnostic_results.interface_error
                   [] GroupOf(attempted[i].name) = 4 -> os_type = "windows"
        /\ \A i, j \in 1..Len(attempted) :
              i < j => GroupOf(attempted[i].name) <= GroupOf(attempted[j].name)
        /\ status \notin {"minor_issues", "major_issues"} =>
              /\ pc \in {"start", "returned"}
              /\ attempted = <<>>
              /\ input_calls = 0
              /\ run_command_calls = <<>>
              /\ ~prompt_invoked
              /\ ~executor_invoked

\* on Windows, a pass for a diagnosis with failed resolutions and an
\* interface error but no failed ping has returned after the DNS, interface
\* and platform groups, and commands were executed
C26_Witness ==
    /\ PassReturned
    /\ os_type = "windows"
    /\ diagnostic_results.failed_resolutions > 0
    /\ diagnostic_results.failed_pings = 0
    /\ diagnostic_results.interface_error
    /\ Len(fix_results.fixes_attempted) = 7
    /\ executor_invoked

\* a pass for a diagnosis of unknown status whose triggers hold has returned
C26_WitnessOtherStatus ==
    /\ pc = "returned"
    /\ diagnostic_results.overall_status = "unknown"
    /\ diagnostic_results.failed_resolutions > 0

-----------------------------------------------------------------------------
(* Properties of a group method *)

\* how often a fix is in a list
TimesIn(fix, fixes) == Cardinality({ i \in 1..Len(fixes) : fixes[i] = fix })

\* C14: whatever order a group's list of fixes is written in, its loop hands
\* the fixes to _attempt_fix in ascending order of priority: the priorities
\* of the fixes attempted so far are non-decreasing, and when the method
\* returns it has attempted the fixes of its list, each as often as listed.
C14_AscendingPriority ==
    /\ \A i \in 1..Len(attempted_order) : \A j \in i..Len(attempted_order) :
          attempted_order[i].priority <= attempted_order[j].priority
    /\ group_pc = "returned" =>
          \A fix \in FixPool : TimesIn(fix, attempted_order) = TimesIn(fix, fixes_defined)

\* a list [A(priority 2), B(priority 1)] has been attempted as B, A
C14_Witness ==
    /\ group_pc = "returned"
    /\ Len(fixes_defined) = 2
    /\ fixes_defined[1].priority = 2
    /\ fixes_defined[2].priority = 1
    /\ attempted_order = <<fixes_defined[2], fixes_defined[1]>>

-----------------------------------------------------------------------------
(* Properties of the repair loop of the toolkit *)

\* the repair passes run so far
Passes == Len(fix_attempts)

\* C20: in run_comprehensive_analysis the number of repair passes never
\* exceeds max_fix_attempts, is zero when auto_fix is false or the initial
\* status is healthy, and is at most one with dry_run; every pass after the
\* first follows a pass without dry_run that had a successful fix, a wait
\* and a re-diagnosis whose status was not healthy, which is the status the
\* pass is given.
C20_RepairPassesBounded ==
    /\ Passes <= max_fix_attempts
    /\ (~auto_fix \/ initial_status = "healthy") => Passes = 0
    /\ tk_dry_run => Passes <= 1
    /\ \A k \in 2..Passes :
          /\ ~fix_attempts[k - 1].dry_run
          /\ fix_attempts[k - 1].any_successful
          /\ fix_attempts[k].status # "healthy"
          /\ fix_attempts[k].attempt = k
    /\ Passes >= 1 => (waits >= Passes - 1 /\ rediagnoses >= Passes - 1)
    /\ rediagnoses <= waits
    /\ waits <= Passes
    /\ tk_pc = "loop" => (rediagnoses = Passes /\ waits = Passes)

\* the analysis is done after as many passes as max_fix_attempts allows,
\* more than one
C20_Witness ==
    /\ tk_pc = "done"
    /\ max_fix_attempts >= 2
    /\ Passes = max_fix_attempts
    /\ waits = Passes
    /\ current_status # "healthy"

-----------------------------------------------------------------------------
(* Properties of the update cycle *)

\* the commands of the four updaters that install, upgrade, remove or clean
\* packages, and those that schedule a reboot
PackageChangingCommands ==
    {"sudo unattended-upgrade --verbose", "sudo apt autoremove -y", "sudo apt autoclean",
     "sudo pacman -Su", "yay -Sua", "sudo pacman -Rns", "sudo pacman -Sc",
     "sudo dnf update -y", "sudo dnf clean all", "sudo dnf remove -y kernel",
     "sudo dnf autoremove -y", "sudo dnf install -y dnf-automatic",
     "sudo softwareupdate --install", "mas upgrade", "brew upgrade", "brew cleanup"}

RebootCommands == {"sudo sh -c 'echo systemctl reboot | at'", "sudo shutdown -r"}

CommandsRun == { commands_run[i] : i \in 1..Len(commands_run) }

\* C21: in a cycle started with --dry-run, whatever the updater and the
\* updates available, no command that installs, upgrades, removes or cleans
\* packages is executed and no reboot is scheduled.  The keys main sets to
\* False for a dry run do not include auto_remove and auto_clean, so the
\* Debian cycle still runs its cleanup, which refutes the statement.
C21_DryRunChangesNothing ==
    args.dry_run =>
        CommandsRun \cap (PackageChangingCommands \cup RebootCommands) = {}

\* the cycle has returned to run_updates
CycleReturned == update_pc \in {"returned", "exited"}

\* C27: in each of the four updaters, when the pre-update health check is
\* enabled and its overall_status is 'critical', run_update_cycle has
\* returned with overall_status 'aborted' and nothing else was done: no
\* command was executed (no backup, sync, update, cleanup or reboot), no
\* step has a result, the updates were not checked and the post-update check
\* did not run; 'aborted' is reported in no other case; and overall_status
\* is always one of success, no_updates, aborted, failed.
C27_CriticalHealthAborts ==
    /\ update_results.overall_status \in {"success", "no_updates", "aborted", "failed"}
    /\ update_pc # "idle" =>
          /\ update_results.pre_update_health # "None" => config["pre_update_health_check"]
          /\ update_results.pre_update_health = "critical" =>
                /\ CycleReturned
                /\ update_results.overall_status = "aborted"
                /\ commands_run = <<>>
                /\ DOMAIN update_results.steps = {}
                /\ ~update_results.available_updates.checked
                /\ update_results.post_update_health = "None"
                /\ ~update_results.reboot_required
          /\ update_results.overall_status = "aborted" =>
                update_results.pre_update_health = "critical"
          /\ (config["pre_update_health_check"] /\ update_pc # "pre_health") =>
                update_results.pre_update_health # "None"

\* a cycle of the Fedora updater, configured to reboot, was aborted by a
\* critical health check and main has exited with 1
C27_Witness ==
    /\ updater = "fedora"
    /\ config["auto_reboot"]
    /\ update_pc = "exited"
    /\ update_results.pre_update_health = "critical"
    /\ update_results.overall_status = "aborted"
    /\ exit_code = 1

\* cycles of the other three updaters were aborted in the same way
C27_WitnessDebian ==
    updater = "debian" /\ CycleReturned /\ update_results.overall_status = "aborted"

C27_WitnessArch ==
    updater = "arch" /\ CycleReturned /\ update_results.overall_status = "aborted"

C27_WitnessMacos ==
    updater = "macos" /\ CycleReturned /\ update_results.overall_status = "aborted"

\* the results of the steps that update package lists, packages or clean up
UpdateStepKeys ==
    {"package_list_update", "database_sync", "repository_refresh", "update_execution",
     "system_update", "aur_update", "firmware_update", "app_store_update",
     "homebrew_update", "cleanup"}

\* C28: a cycle that has returned reports overall_status 'success' (with
\* which main exits with 0) only if every update step it executed (package-list
\* update, upgrade, cleanup) reported success.  The cycle stores the result
\* of each step and never reads its status, so a failed upgrade command
\* leaves overall_status at 'success', which refutes the statement.
C28_SuccessMeansStepsSucceeded ==
    (CycleReturned /\ update_results.overall_status = "success") =>
        \A key \in UpdateStepKeys \cap DOMAIN update_results.steps :
           update_results.steps[key] \in {"success", "skipped"}

-----------------------------------------------------------------------------
(* Properties of the bottleneck analysis *)

\* the severities the checks of a bottlenecks dict report; a check that
\* returned an error has none
SeveritiesOf(b) ==
    { b[BottleneckKeys[i]].severity :
        i \in { j \in 1..4 : ~b[BottleneckKeys[j]].has_error } }

\* C22: overall_assessment is the worst severity of the four checks:
\* 'critical' if one is critical, otherwise 'warning' if one is high,
\* otherwise 'minor_issues' if one is medium, otherwise 'normal'; checks
\* with an error only do not count.  The code looks for the three words
\* only in the checks whose severity is high or critical, so a medium
\* severity without a higher one gives 'normal', which refutes the
\* statement.
C22_WorstSeverity ==
    pa_pc = "assessed" =>
        bottlenecks.overall_assessment =
           IF "critical" \in SeveritiesOf(bottlenecks) THEN "critical"
           ELSE IF "high" \in SeveritiesOf(bottlenecks) THEN "warning"
           ELSE IF "medium" \in SeveritiesOf(bottlenecks) THEN "minor_issues"
           ELSE "normal"

\* the statement as far as it holds: 'critical' and 'warning' are assigned
\* as stated, and every other analysis is 'normal'
C22_CriticalAndWarningOnly ==
    pa_pc = "assessed" =>
        bottlenecks.overall_assessment =
           IF "critical" \in SeveritiesOf(bottlenecks) THEN "critical"
           ELSE IF "high" \in SeveritiesOf(bottlenecks) THEN "warning"
           ELSE "normal"

-----------------------------------------------------------------------------
(* Properties of the aggregation over service checks *)

\* the entries check_services stored in results
ServiceEntries ==
    LET services == GetItem(results, "services")
    IN  { services.items[i][2] :
            i \in { j \in 1..Len(services.items) : services.items[j][2].kind = "dict" } }

\* C29: after run_all_checks, a service check whose health_status is
\* 'warning' (the service is not running) or 'error' (the check raised)
\* has raised overall_status to at least that severity, as a disk or memory
\* check of the same severity does.  The aggregation reads the key 'status'
\* only, which for a service is 'running', 'stopped' or 'unknown' or is
\* absent, so a service check never raises overall_status, which refutes
\* the statement.
C29_ServiceHealthCounts ==
    hc_pc = "done" =>
        \A service \in ServiceEntries :
           SeverityOf(overall_status) >= SeverityOf(GetItem(service, "health_status").val)

\* the same for the disk and memory checks, of which the statement holds
C29_DiskAndMemoryCount ==
    hc_pc = "done" =>
        /\ SeverityOf(overall_status) >=
              SeverityOf(GetItem(GetItem(GetItem(results, "disk_space"), "/"), "status").val)
        /\ SeverityOf(overall_status) >=
              SeverityOf(GetItem(GetItem(results, "memory_usage"), "status").val)

-----------------------------------------------------------------------------
(* Properties of the multi-stage tracker *)

(* the calls other than update_stage *)
StageCalls(calls) == SelectSeq(calls, LAMBDA c : c.op # "update_stage")

(* the first k stages were each started and then finished, in order, and   *)
(* nothing else was called but update_stage                                *)
StartedAndFinishedInOrder(calls, k) ==
    LET cs == StageCalls(calls) IN
    /\ Len(cs) = 2 * k
    /\ \A i \in 1..k :
         /\ cs[2 * i - 1].op = "start_stage"
         /\ cs[2 * i - 1].stage_index \in {i - 1, -1}
         /\ cs[2 * i].op = "finish_stage"

FinishAllAfterEveryStage ==
    /\ ms_calls # <<>>
    /\ ms_calls[Len(ms_calls)].op = "finish_all"
    /\ StartedAndFinishedInOrder(SubSeq(ms_calls, 1, Len(ms_calls) - 1), Len(stages))

NoStageFinishedTwice ==
    \A i, j \in 1..Len(finishes) : finishes[i].tracker = finishes[j].tracker => i = j

\* C30: after every stage was started with start_stage and finished with
\* finish_stage in order, finish_all completes without an error: no stage is
\* finished twice, current_stage_index is at most the number of stages and
\* nothing is read past the end of the stage list.
C30_FinishAllCompletes ==
    FinishAllAfterEveryStage =>
        /\ ms_pc = "finished"
        /\ NoStageFinishedTwice
        /\ current_stage_index <= Len(stages)

\* Up to the call of finish_all the ordered calls do run without an error:
\* while the first k stages were started and finished in order, nothing was
\* raised, each of them was finished once and current_stage_index is k.
C30_OrderedStagesRunClean ==
    \A k \in 0..Len(stages) :
        StartedAndFinishedInOrder(ms_calls, k) =>
            /\ ms_pc = "running"
            /\ NoStageFinishedTwice
            /\ Len(finishes) = k
            /\ current_stage_index = k

C30_WitnessEveryStageFinished ==
    /\ Len(stages) = MaxStages
    /\ StartedAndFinishedInOrder(ms_calls, Len(stages))

=============================================================================
